---- MODULE Spec2Model ----
(***************************************************************************)
(* Refinery: the refinement request pipeline.                              *)
(*                                                                         *)
(* Part 1 models CacheManager (src/src/utils/cacheManager.ts): a Map kept  *)
(* in insertion order, bounded by maxSize, expiring by ttl, with hit and   *)
(* miss counters; SpecCache drives it through its public methods.          *)
(* Part 2 models chatHandler and streamFromGemini; SpecPipeline runs two   *)
(* executions of chatHandler against the cache, the history and the        *)
(* service.                                                                *)
(* Part 3 models CacheManager.hash, classifyError and withRetry taken      *)
(* alone: SpecHash, SpecClassify and SpecRetry.                            *)
(* Part 4 runs the executions of chatHandler one after the other, with     *)
(* several file contexts, errors of the service and throwing sinks:        *)
(* SpecSequential.                                                         *)
(* Part 5 runs chatHandler under fair scheduling: SpecFair.                *)
(* Part 6 runs one request over a longer stream: SpecProgress.             *)
(* Part 7 models the Gemini client and its stored key: SpecClient.         *)
(* Part 8 models estimateTokens and validateTokenCount: SpecTokens.        *)
(* Part 9 models the reset of the cache from the dashboard: SpecReset.     *)
(*                                                                         *)
(* Text (prompts, fragments, cache values, cache keys) is a sequence of    *)
(* one-character strings, so that concatenation and trimming are what the  *)
(* code computes.                                                          *)
(***************************************************************************)
EXTENDS Integers, Sequences, FiniteSets, TLC

----------------------------------------------------------------------------
(* Bounds of the model *)

\* Date.now() runs over 0..MaxTime
MaxTime == 2
\* at most MaxGets calls of CacheManager.get between two clears
MaxGets == 2

----------------------------------------------------------------------------
(* Text *)

\* String.prototype.trim on a sequence of characters
RECURSIVE TrimLeft(_)
TrimLeft(s) ==
    IF s # <<>> /\ Head(s) = " " THEN TrimLeft(Tail(s)) ELSE s

RECURSIVE TrimRight(_)
TrimRight(s) ==
    IF s # <<>> /\ s[Len(s)] = " " THEN TrimRight(SubSeq(s, 1, Len(s) - 1)) ELSE s

trim(s) == TrimRight(TrimLeft(s))

----------------------------------------------------------------------------
(* CacheManager: inputs *)

\* `${userInput}|${model}|${projectContext}`, then sha256, hex, first 16
\* characters.  The digest is taken as collision-free on its input string, so
\* the fingerprint is the joined string under a tag.
hash(userInput, model, projectContext) ==
    <<"sha256">> \o userInput \o <<"|">> \o model \o <<"|">> \o projectContext

NoFramework == <<>>

\* JSON.stringify({ project: projectContext?.framework })
contextHash(framework) ==
    <<"{", "project", ":">>
        \o (IF framework = NoFramework THEN <<"null">> ELSE <<"'">> \o framework \o <<"'">>)
        \o <<"}">>

\* the fingerprints the cache is driven with
Keys ==
    { hash(u, <<"m">>, contextHash(NoFramework)) :
          u \in { <<"a">>, <<"b">>, <<"c">> } }

\* refined prompts as chatHandler stores them (trimmed, non-empty)
Values == { <<"x">>, <<"y">> }

Models == { <<"m">> }

InputLengths == { 1 }

\* refinery.cacheSize: any number the settings hold
ConfigSizes == { -1, 0, 1, 2 }

\* refinery.cacheTTL
ConfigTTLs == { 0, 1 }

\* string | null
Null == <<>>

Some(v) == <<v>>

NoKey == <<>>

----------------------------------------------------------------------------
(* CacheManager: the Map and the methods, as functions of the object *)

\* Map.has
MapHas(c, key) == \E i \in 1 .. Len(c) : c[i].key = key

\* Map.get: the position of key, 0 when absent
MapIndex(c, key) ==
    IF MapHas(c, key) THEN CHOOSE i \in 1 .. Len(c) : c[i].key = key ELSE 0

\* Map.delete
MapDelete(c, key) == SelectSeq(c, LAMBDA e : e.key # key)

\* Map.set: an existing key keeps its place, a new key goes last
MapSet(c, key, entry) ==
    IF MapHas(c, key)
    THEN [i \in 1 .. Len(c) |-> IF c[i].key = key THEN entry ELSE c[i]]
    ELSE Append(c, entry)

\* the scan of evictOldest: oldestKey = NoKey stands for oldestTime = Infinity
RECURSIVE OldestScan(_, _, _, _)
OldestScan(c, i, oldestKey, oldestTime) ==
    IF i > Len(c) THEN oldestKey
    ELSE IF oldestKey = NoKey \/ c[i].timestamp < oldestTime
         THEN OldestScan(c, i + 1, c[i].key, c[i].timestamp)
         ELSE OldestScan(c, i + 1, oldestKey, oldestTime)

\* evictOldest with <= in the scan: the last of the oldest entries is taken
RECURSIVE OldestScanLastTie(_, _, _, _)
OldestScanLastTie(c, i, oldestKey, oldestTime) ==
    IF i > Len(c) THEN oldestKey
    ELSE IF oldestKey = NoKey \/ c[i].timestamp <= oldestTime
         THEN OldestScanLastTie(c, i + 1, c[i].key, c[i].timestamp)
         ELSE OldestScanLastTie(c, i + 1, oldestKey, oldestTime)

evictOldestLastTie(c) ==
    LET oldestKey == OldestScanLastTie(c, 1, NoKey, 0)
    IN  IF oldestKey # NoKey THEN MapDelete(c, oldestKey) ELSE c

\* a fingerprint is never the empty string, so `if (oldestKey)` is the test
\* for null
evictOldest(c) ==
    LET oldestKey == OldestScan(c, 1, NoKey, 0)
    IN  IF oldestKey # NoKey THEN MapDelete(c, oldestKey) ELSE c

\* constructor
NewCacheManager(size, ttl) ==
    [cache |-> <<>>, maxSize |-> size, ttl |-> ttl, hits |-> 0, misses |-> 0]

\* get with age >= ttl as the expiry test
getExpiresAtTtl(m, key, t) ==
    LET i == MapIndex(m.cache, key)
    IN  IF i # 0
        THEN IF t - m.cache[i].timestamp >= m.ttl
             THEN [cm |-> [m EXCEPT !.cache = MapDelete(@, key),
                                    !.misses = @ + 1],
                   result |-> Null]
             ELSE [cm |-> [m EXCEPT !.cache[i].timestamp = t,
                                    !.hits = @ + 1],
                   result |-> Some(m.cache[i].value)]
        ELSE [cm |-> [m EXCEPT !.misses = @ + 1], result |-> Null]

\* get that forgets misses++ on the expiry branch
getExpiredNoMiss(m, key, t) ==
    LET i == MapIndex(m.cache, key)
    IN  IF i # 0
        THEN IF t - m.cache[i].timestamp > m.ttl
             THEN [cm |-> [m EXCEPT !.cache = MapDelete(@, key)],
                   result |-> Null]
             ELSE [cm |-> [m EXCEPT !.cache[i].timestamp = t,
                                    !.hits = @ + 1],
                   result |-> Some(m.cache[i].value)]
        ELSE [cm |-> [m EXCEPT !.misses = @ + 1], result |-> Null]

get(m, key, t) ==
    LET i == MapIndex(m.cache, key)
    IN  IF i # 0
        THEN IF t - m.cache[i].timestamp > m.ttl
             THEN [cm |-> [m EXCEPT !.cache = MapDelete(@, key),
                                    !.misses = @ + 1],
                   result |-> Null]
             ELSE [cm |-> [m EXCEPT !.cache[i].timestamp = t,
                                    !.hits = @ + 1],
                   result |-> Some(m.cache[i].value)]
        ELSE [cm |-> [m EXCEPT !.misses = @ + 1], result |-> Null]

\* set that leaves an entry already present as it is
setKeepsPresent(m, key, value, model, inputLength, t) ==
    LET c1 == IF Len(m.cache) >= m.maxSize /\ ~MapHas(m.cache, key)
              THEN evictOldest(m.cache)
              ELSE m.cache
        entry == [key |-> key, value |-> value, timestamp |-> t,
                  model |-> model, inputLength |-> inputLength]
    IN  IF MapHas(m.cache, key) THEN m
        ELSE [m EXCEPT !.cache = MapSet(c1, key, entry)]

set(m, key, value, model, inputLength, t) ==
    LET c1 == IF Len(m.cache) >= m.maxSize /\ ~MapHas(m.cache, key)
              THEN evictOldest(m.cache)
              ELSE m.cache
        entry == [key |-> key, value |-> value, timestamp |-> t,
                  model |-> model, inputLength |-> inputLength]
    IN  [m EXCEPT !.cache = MapSet(c1, key, entry)]

clear(m) == [m EXCEPT !.cache = <<>>, !.hits = 0, !.misses = 0]

\* has that reports an expired entry without deleting it
hasKeepsExpired(m, key, t) ==
    LET i == MapIndex(m.cache, key)
    IN  IF i # 0
        THEN IF t - m.cache[i].timestamp > m.ttl
             THEN [cm |-> m, result |-> FALSE]
             ELSE [cm |-> m, result |-> TRUE]
        ELSE [cm |-> m, result |-> FALSE]

has(m, key, t) ==
    LET i == MapIndex(m.cache, key)
    IN  IF i # 0
        THEN IF t - m.cache[i].timestamp > m.ttl
             THEN [cm |-> [m EXCEPT !.cache = MapDelete(@, key)],
                   result |-> FALSE]
             ELSE [cm |-> m, result |-> TRUE]
        ELSE [cm |-> m, result |-> FALSE]

\* prune with age >= ttl as the expiry test
pruneExpiresAtTtl(m, t) ==
    LET kept == SelectSeq(m.cache, LAMBDA e : ~(t - e.timestamp >= m.ttl))
    IN  [cm |-> [m EXCEPT !.cache = kept],
         result |-> Len(m.cache) - Len(kept)]

prune(m, t) ==
    LET kept == SelectSeq(m.cache, LAMBDA e : ~(t - e.timestamp > m.ttl))
    IN  [cm |-> [m EXCEPT !.cache = kept],
         result |-> Len(m.cache) - Len(kept)]

\* the while loop of updateConfig; it returns only if the size gets within
\* maxSize, and evictOldest removes nothing from an empty Map
RECURSIVE EvictLoop(_, _)
EvictLoop(c, size) ==
    IF Len(c) > size
    THEN IF c = <<>>
         THEN [cache |-> c, returns |-> FALSE]
         ELSE EvictLoop(evictOldest(c), size)
    ELSE [cache |-> c, returns |-> TRUE]

\* updateConfig with `if` for `while`: one eviction at most
updateConfigEvictsOnce(m, cacheSize, cacheTTL) ==
    [cm |-> [m EXCEPT !.maxSize = cacheSize, !.ttl = cacheTTL,
                      !.cache = IF Len(m.cache) > cacheSize
                                THEN evictOldest(m.cache) ELSE m.cache],
     returns |-> TRUE]

updateConfig(m, cacheSize, cacheTTL) ==
    LET r == EvictLoop(m.cache, cacheSize)
    IN  [cm |-> [m EXCEPT !.maxSize = cacheSize, !.ttl = cacheTTL,
                          !.cache = r.cache],
         returns |-> r.returns]

getStats(m) ==
    [size |-> Len(m.cache), hits |-> m.hits, misses |-> m.misses,
     maxSize |-> m.maxSize]

----------------------------------------------------------------------------
(* State *)

VARIABLES
    cm,     \* the CacheManager object
    now,    \* Date.now()
    gets,   \* calls of get since the object was built or last cleared
    hung,   \* TRUE once a call has entered a loop it never leaves
    ret     \* the last step: the operation, its arguments, the object and the
            \* clock it was applied to, and what it returned

VARIABLES
    exec,               \* the executions of chatHandler, each with its locals
    history,            \* HistoryManager.history, newest first
    calls,              \* the calls of model.generateContentStream, in order
    inFlightRequests    \* the Map of in-flight requests of the Gemini client

VARIABLES
    hashed,         \* CacheManager.hash: the triples given and the fingerprints
    classified,     \* classifyError: the error given and what came back
    retry           \* one call of withRetry, with its locals and what it did

cacheVars == <<cm, now, gets, hung, ret>>

pipeVars == <<exec, history, calls, inFlightRequests>>

VARIABLES
    client,         \* the Gemini client: the stored key, geminiInstance and
                    \* the clients made
    tokens,         \* estimateTokens and validateTokenCount: the text given
                    \* and what came back
    discarded       \* the CacheManager objects that cacheInstance pointed to
                    \* before a resetCacheManager, in the order they were
                    \* built; cm is the one built after them

svcVars == <<client, tokens, discarded>>

libVars == <<hashed, classified, retry, svcVars>>

vars == <<cm, now, gets, hung, ret, pipeVars, libVars>>

\* the object cacheInstance points to, by the order in which the objects
\* were built: the first, the second, ...
cacheInstance == Len(discarded) + 1

Call(op, key, result) ==
    [op |-> op, key |-> key, result |-> result, pre |-> cm, at |-> now]

----------------------------------------------------------------------------
(* chatHandler: the executions and their locals *)

Execs == { "e1", "e2" }

\* the token has not fired
NotCancelled == [pc |-> "none", forwarded |-> 0]

\* an execution that has not been started
IdleExec ==
    [pc |-> "idle", userInput |-> <<>>, token |-> FALSE,
     cancelledAt |-> NotCancelled, model |-> <<>>,
     framework |-> NoFramework, cacheKey |-> NoKey, refinedPrompt |-> <<>>,
     isFirstChunk |-> TRUE, chunkCount |-> 0, totalChars |-> 0,
     produced |-> <<>>, forwarded |-> <<>>, shown |-> <<>>, log |-> <<>>,
     tokenValidation |-> Null, fileContext |-> Null, cachedResult |-> Null,
     thrown |-> Null, metadata |-> "none", reported |-> <<>>,
     cacheManager |-> 0, result |-> "none"]

\* no request has been received
PipelineIdle ==
    /\ exec = [p \in Execs |-> IdleExec]
    /\ history = <<>>
    /\ calls = <<>>
    /\ inFlightRequests = {}

\* hash, classifyError and withRetry have not been called
\* the Gemini client has not been used, estimateTokens and
\* validateTokenCount have not been called, the cache has not been reset
SvcIdle ==
    /\ client = [secret |-> <<>>, geminiInstance |-> <<>>, made |-> <<>>]
    /\ tokens = [pc |-> "idle"]
    /\ discarded = <<>>

LibIdle ==
    /\ hashed = [inputs |-> <<>>, results |-> <<>>]
    /\ classified = [error |-> "none", parts |-> <<>>, results |-> <<>>]
    /\ retry = [pc |-> "idle"]
    /\ SvcIdle

----------------------------------------------------------------------------
(* CacheManager: the operations *)

Get(key) ==
    /\ ~hung
    /\ gets < MaxGets
    /\ LET r == get(cm, key, now)
       IN  /\ cm' = r.cm
           /\ ret' = Call("get", key, r.result)
    /\ gets' = gets + 1
    /\ UNCHANGED <<now, hung, pipeVars, libVars>>

Set(key, value, model, inputLength) ==
    /\ ~hung
    /\ cm' = set(cm, key, value, model, inputLength, now)
    /\ ret' = Call("set", key, Null)
    /\ UNCHANGED <<now, gets, hung, pipeVars, libVars>>

Has(key) ==
    /\ ~hung
    /\ LET r == has(cm, key, now)
       IN  /\ cm' = r.cm
           /\ ret' = Call("has", key, r.result)
    /\ UNCHANGED <<now, gets, hung, pipeVars, libVars>>

Prune ==
    /\ ~hung
    /\ LET r == prune(cm, now)
       IN  /\ cm' = r.cm
           /\ ret' = Call("prune", NoKey, r.result)
    /\ UNCHANGED <<now, gets, hung, pipeVars, libVars>>

Clear ==
    /\ ~hung
    /\ cm' = clear(cm)
    /\ gets' = 0
    /\ ret' = Call("clear", NoKey, Null)
    /\ UNCHANGED <<now, hung, pipeVars, libVars>>

UpdateConfig(cacheSize, cacheTTL) ==
    /\ ~hung
    /\ LET r == updateConfig(cm, cacheSize, cacheTTL)
       IN  /\ cm' = r.cm
           /\ hung' = ~r.returns
           /\ ret' = Call("updateConfig", NoKey, r.returns)
    /\ UNCHANGED <<now, gets, pipeVars, libVars>>

\* the clock advances between calls
Tick ==
    /\ ~hung
    /\ now < MaxTime
    /\ now' = now + 1
    /\ ret' = Call("tick", NoKey, Null)
    /\ UNCHANGED <<cm, gets, hung, pipeVars, libVars>>

----------------------------------------------------------------------------
(* The cache driven through its public methods *)

InitCache ==
    /\ \E size \in ConfigSizes, ttl \in ConfigTTLs :
           cm = NewCacheManager(size, ttl)
    /\ now = 0
    /\ gets = 0
    /\ hung = FALSE
    /\ ret = [op |-> "new", key |-> NoKey, result |-> Null, pre |-> cm, at |-> 0]
    /\ PipelineIdle
    /\ LibIdle

NextCache ==
    \/ \E key \in Keys : Get(key)
    \/ \E key \in Keys, value \in Values, model \in Models,
          inputLength \in InputLengths : Set(key, value, model, inputLength)
    \/ \E key \in Keys : Has(key)
    \/ Prune
    \/ Clear
    \/ \E cacheSize \in ConfigSizes, cacheTTL \in ConfigTTLs :
           UpdateConfig(cacheSize, cacheTTL)
    \/ Tick

SpecCache == InitCache /\ [][NextCache]_vars

----------------------------------------------------------------------------
(* CacheManager: what the claims speak of *)

\* the operation of the last step was applied to the object Pre at time At
Pre == ret.pre

At == ret.at

\* the keys of a Map
MapKeys(c) == { c[i].key : i \in 1 .. Len(c) }

\* the entry of a key that the Map holds
MapEntry(c, key) == c[MapIndex(c, key)]

\* the entry is older than ttl at time t
Expired(m, e, t) == t - e.timestamp > m.ttl

\* the keys that the last step removed from the Map
Removed == MapKeys(Pre.cache) \ MapKeys(cm.cache)

\* a Map is at capacity
AtCapacity(m) == Len(m.cache) >= m.maxSize

----------------------------------------------------------------------------
(* C3 *)

\* C3: after any sequence of set, get, has, prune, clear and updateConfig,
\* and for every configured maxSize >= 0, the number of stored entries never
\* exceeds maxSize.  (The claim as stated; set breaks it at maxSize = 0.)
C3_SizeNeverExceedsMaxSize ==
    cm.maxSize >= 0 => getStats(cm).size <= cm.maxSize

----------------------------------------------------------------------------
(* C4 *)

\* C4: get(k) returns the stored value exactly when k is present and
\* now - timestamp <= ttl (age = ttl is a hit); when k is present but older
\* than ttl, get returns a miss and removes the entry, and the size that
\* getStats reports goes down by one.
C4_GetHitExactlyWhenFresh ==
    ret.op = "get" =>
        LET present == MapHas(Pre.cache, ret.key)
            e == MapEntry(Pre.cache, ret.key)
            fresh == present /\ At - e.timestamp <= Pre.ttl
        IN  /\ fresh => ret.result = Some(e.value)
            /\ ~fresh => ret.result = Null
            /\ (present /\ ~fresh) =>
                   /\ ~MapHas(cm.cache, ret.key)
                   /\ getStats(cm).size = getStats(Pre).size - 1

\* a get of an entry older than ttl has returned a miss and removed it
C4_Witness ==
    /\ ret.op = "get"
    /\ MapHas(Pre.cache, ret.key)
    /\ At - MapEntry(Pre.cache, ret.key).timestamp > Pre.ttl
    /\ ret.result = Null
    /\ getStats(cm).size = getStats(Pre).size - 1

----------------------------------------------------------------------------
(* C5 *)

\* C5: in every state the cache reaches, for every key k and value v,
\* set(k, v, model, len) followed at the same instant by get(k) returns v,
\* adds one to hits and leaves misses as they are.
C5_SetThenGetReturnsValue ==
    ~hung =>
        \A key \in Keys, value \in Values, model \in Models,
           inputLength \in InputLengths :
            LET stored == set(cm, key, value, model, inputLength, now)
                r == get(stored, key, now)
            IN  /\ r.result = Some(value)
                /\ r.cm.hits = stored.hits + 1
                /\ r.cm.misses = stored.misses

\* a get, the first since the counters were zero, has hit an entry that a set
\* stored at that very instant, after the clock had advanced
C5_Witness ==
    /\ ret.op = "get"
    /\ ret.result # Null
    /\ MapHas(Pre.cache, ret.key)
    /\ MapEntry(Pre.cache, ret.key).timestamp = At
    /\ At > 0
    /\ Pre.hits = 0 /\ cm.hits = 1 /\ cm.misses = 0

----------------------------------------------------------------------------
(* C6 *)

\* C6: set evicts at most one entry, and only when the cache is at capacity
\* and the key is not already present; the victim has the smallest timestamp
\* of all entries and is the first such entry in iteration order; a set on a
\* key already present evicts nothing.
C6_SetEvictsOldestOnlyAtCapacity ==
    ret.op = "set" =>
        /\ Cardinality(Removed) <= 1
        /\ Removed # {} =>
               /\ AtCapacity(Pre)
               /\ ~MapHas(Pre.cache, ret.key)
               /\ \E i \in 1 .. Len(Pre.cache) :
                      /\ Removed = { Pre.cache[i].key }
                      /\ \A j \in 1 .. Len(Pre.cache) :
                             Pre.cache[j].timestamp >= Pre.cache[i].timestamp
                      /\ \A j \in 1 .. (i - 1) :
                             Pre.cache[j].timestamp > Pre.cache[i].timestamp
        /\ MapHas(Pre.cache, ret.key) => Removed = {}
        /\ MapHas(cm.cache, ret.key)

\* a set of a new key at capacity has evicted the first of two entries that
\* tie for the smallest timestamp
C6_Witness ==
    /\ ret.op = "set"
    /\ Len(Pre.cache) = 2
    /\ Pre.cache[1].timestamp = Pre.cache[2].timestamp
    /\ Removed = { Pre.cache[1].key }
    /\ At > Pre.cache[1].timestamp

----------------------------------------------------------------------------
(* C7 *)

\* C7: touching an entry by a successful get(k) protects it: in a cache of
\* at least two entries, the next set of a new key at capacity does not
\* evict k.  (The claim as stated; it fails when another entry carries the
\* same timestamp as the touched one and comes later in the Map.)
C7_TouchProtectsFromEviction ==
    ~hung =>
        \A key \in Keys, other \in Keys, value \in Values, model \in Models,
           inputLength \in InputLengths :
            LET g == get(cm, key, now)
                stored == set(g.cm, other, value, model, inputLength, now)
            IN  (/\ g.result # Null
                 /\ Len(g.cm.cache) >= 2
                 /\ ~MapHas(g.cm.cache, other)
                 /\ AtCapacity(g.cm))
                => MapHas(stored.cache, key)

----------------------------------------------------------------------------
(* C8 *)

\* C8: every get adds one to exactly one of hits and misses (hits on a hit,
\* misses on an absent or expired key); no operation but get and clear
\* changes them; hits + misses is the number of gets since the last clear.
C8_CountersCountGets ==
    /\ ret.op = "get" =>
           IF ret.result # Null
           THEN cm.hits = Pre.hits + 1 /\ cm.misses = Pre.misses
           ELSE cm.hits = Pre.hits /\ cm.misses = Pre.misses + 1
    /\ ret.op = "clear" => cm.hits = 0 /\ cm.misses = 0
    /\ ret.op \notin { "get", "clear" } =>
           cm.hits = Pre.hits /\ cm.misses = Pre.misses
    /\ cm.hits + cm.misses = gets

\* a get of an expired entry has counted as the miss after an earlier hit
C8_Witness ==
    /\ ret.op = "get"
    /\ MapHas(Pre.cache, ret.key)
    /\ ret.result = Null
    /\ cm.hits = 1 /\ cm.misses = 1
    /\ gets = 2

----------------------------------------------------------------------------
(* C9 *)

\* C9: has(k) returns true exactly when get(k) at the same instant would be
\* a hit, removes k when it is expired, and leaves the counters and the
\* timestamp of a live entry as they are.
C9_HasAgreesWithGet ==
    ret.op = "has" =>
        LET g == get(Pre, ret.key, At)
            present == MapHas(Pre.cache, ret.key)
            e == MapEntry(Pre.cache, ret.key)
        IN  /\ ret.result = (g.result # Null)
            /\ (present /\ Expired(Pre, e, At)) =>
                   cm.cache = MapDelete(Pre.cache, ret.key)
            /\ (present /\ ~Expired(Pre, e, At)) =>
                   /\ cm.cache = Pre.cache
                   /\ MapEntry(cm.cache, ret.key).timestamp = e.timestamp
            /\ ~present => cm.cache = Pre.cache
            /\ cm.hits = Pre.hits /\ cm.misses = Pre.misses

\* has has found an expired entry, answered false and removed it
C9_Witness ==
    /\ ret.op = "has"
    /\ MapHas(Pre.cache, ret.key)
    /\ Expired(Pre, MapEntry(Pre.cache, ret.key), At)
    /\ ret.result = FALSE
    /\ ~MapHas(cm.cache, ret.key)
    /\ Len(Pre.cache) = 2

----------------------------------------------------------------------------
(* C10 *)

\* C10: prune removes every entry with now - timestamp > ttl and no other
\* entry, however full the cache is, and returns the number of entries it
\* removed.
C10_PruneRemovesExactlyExpired ==
    ret.op = "prune" =>
        /\ \A i \in 1 .. Len(Pre.cache) :
               (Pre.cache[i].key \in Removed)
                   <=> (At - Pre.cache[i].timestamp > Pre.ttl)
        /\ \A i \in 1 .. Len(cm.cache) :
               /\ MapHas(Pre.cache, cm.cache[i].key)
               /\ cm.cache[i] = MapEntry(Pre.cache, cm.cache[i].key)
        /\ ret.result = Cardinality(Removed)
        /\ Len(cm.cache) = Len(Pre.cache) - ret.result

\* prune, on a cache below capacity, has removed the one entry it held
C10_Witness ==
    /\ ret.op = "prune"
    /\ Len(Pre.cache) = 1
    /\ Len(Pre.cache) < Pre.maxSize
    /\ ret.result = 1
    /\ cm.cache = <<>>

----------------------------------------------------------------------------
(* C11 *)

\* C11: reconfiguration takes effect at once.  An updateConfig that returns
\* leaves at most the new maxSize entries; it removes no entry when the cache
\* was within the new maxSize; the entries it removes are the oldest (none of
\* them is younger than an entry it keeps) and the entries it keeps are
\* unchanged and in their order.  And the new ttl is the one that a get, has
\* or prune right after it applies to the entries stored before.
C11_ReconfigurationIsImmediate ==
    /\ (ret.op = "updateConfig" /\ ~hung) =>
           /\ Len(cm.cache) <= cm.maxSize
           /\ Len(Pre.cache) <= cm.maxSize => cm.cache = Pre.cache
           /\ Len(cm.cache) = IF Len(Pre.cache) <= cm.maxSize
                              THEN Len(Pre.cache) ELSE cm.maxSize
           /\ cm.cache = SelectSeq(Pre.cache, LAMBDA e : e.key \notin Removed)
           /\ \A i \in 1 .. Len(Pre.cache), j \in 1 .. Len(cm.cache) :
                  Pre.cache[i].key \in Removed =>
                      Pre.cache[i].timestamp <= cm.cache[j].timestamp
    /\ ~hung =>
           \A cacheSize \in ConfigSizes, cacheTTL \in ConfigTTLs :
               LET u == updateConfig(cm, cacheSize, cacheTTL)
                   Fresh(e) == now - e.timestamp <= cacheTTL
               IN  u.returns =>
                       /\ \A key \in Keys :
                              LET live == /\ MapHas(u.cm.cache, key)
                                          /\ Fresh(MapEntry(u.cm.cache, key))
                              IN  /\ (get(u.cm, key, now).result # Null) <=> live
                                  /\ has(u.cm, key, now).result <=> live
                       /\ prune(u.cm, now).cm.cache
                              = SelectSeq(u.cm.cache, Fresh)

\* an updateConfig that lowered maxSize from 2 to 1 and changed ttl has
\* removed the second entry of the Map, the older one, and kept the first
C11_Witness ==
    /\ ret.op = "updateConfig"
    /\ ~hung
    /\ Len(Pre.cache) = 2
    /\ Pre.maxSize = 2 /\ cm.maxSize = 1
    /\ Pre.ttl # cm.ttl
    /\ Pre.cache[2].timestamp < Pre.cache[1].timestamp
    /\ cm.cache = << Pre.cache[1] >>

----------------------------------------------------------------------------
(* C38 *)

\* C38: updateConfig terminates for every configured cacheSize, 0 and the
\* negative ones and an empty cache included, and leaves the cache with at
\* most max(cacheSize, 0) entries.
C38_UpdateConfigTerminates ==
    /\ ~hung
    /\ ret.op = "updateConfig" =>
           Len(cm.cache) <= IF cm.maxSize > 0 THEN cm.maxSize ELSE 0

----------------------------------------------------------------------------
(***************************************************************************)
(* Part 2: chatHandler (src/src/features/chatParticipant.ts) driving       *)
(* streamFromGemini (src/unnamed/part_003), the cache and the history.     *)
(* An execution moves at its suspension points: the await of ensureApiKey, *)
(* the awaits of the context, the await of generateContentStream, and each *)
(* step of the for-await loop over the stream.                             *)
(***************************************************************************)

\* fragments the service produces in all its streams together
MaxChunks == 2

\* Date.now() runs over 0..MaxClock while requests are served
MaxClock == 1

DEFAULT_TOKEN_LIMIT == 100000

\* warningThreshold = 0.8, in percent
WarningThresholdPercent == 80

\* HistoryManager.maxHistory
maxHistory == 50

\* refinery.cacheSize while requests are served
PipelineSizes == { 1, 2 }

\* request.command
Commands == { "", "help" }

\* request.prompt
UserInputs == { <<"a">>, <<" ">> }

NoApiKey == <<>>

\* what ensureApiKey resolves to
ApiKeys == { NoApiKey, <<"k">> }

\* projectContext.framework
Frameworks == { NoFramework, <<"r">> }

\* estimateTokens(buildPrompt(userInput)): far below the limit, at the
\* warning threshold, at the limit
TokenEstimates ==
    { 1000, (WarningThresholdPercent * DEFAULT_TOKEN_LIMIT) \div 100,
      DEFAULT_TOKEN_LIMIT }

\* chunk.text() of a fragment of the stream
ChunkTexts == { <<>>, <<" ">>, <<"x">> }

\* getActiveFileContext(): the active file, its content, the cursor
PipelineFileContexts == { <<"f">> }

\* what generateContentStream and the stream throw: an Error of the service
PipelineErrors == { [instance |-> "Error", message |-> <<"4", "0", "1">>] }

\* what a sink (historyManager, logger) throws
SinkError == [instance |-> "Error", message |-> <<"o", "o", "p", "s">>]

\* where a sink throws after the loop: nowhere, in saveHistory at the end of
\* historyManager.add, in logger.info('refinement_complete')
NoFault == "none"

SinkFaults == { NoFault, "saveHistory", "logger.info" }

\* validateTokenCount, had the warning not been in the else branch
validateTokenCountWarnsAlways(estimatedTokens, warningThresholdPercent) ==
    LET maxTokens == DEFAULT_TOKEN_LIMIT
        over == estimatedTokens * 100 >= 100 * maxTokens
        large == estimatedTokens * 100 >= warningThresholdPercent * maxTokens
    IN  [isValid |-> ~over,
         estimatedTokens |-> estimatedTokens,
         maxTokens |-> maxTokens,
         warning |-> large,
         error |-> over]

\* validateTokenCount with usagePercent > 100 as the test of the gate
validateTokenCountStrictlyOver(estimatedTokens, warningThresholdPercent) ==
    LET maxTokens == DEFAULT_TOKEN_LIMIT
        over == estimatedTokens * 100 > 100 * maxTokens
        large == estimatedTokens * 100 >= warningThresholdPercent * maxTokens
    IN  [isValid |-> ~over,
         estimatedTokens |-> estimatedTokens,
         maxTokens |-> maxTokens,
         warning |-> ~over /\ large,
         error |-> over]

\* validateTokenCount, from the estimate on; usagePercent is
\* estimatedTokens / maxTokens * 100
validateTokenCount(estimatedTokens, warningThresholdPercent) ==
    LET maxTokens == DEFAULT_TOKEN_LIMIT
        over == estimatedTokens * 100 >= 100 * maxTokens
        large == estimatedTokens * 100 >= warningThresholdPercent * maxTokens
    IN  [isValid |-> ~over,
         estimatedTokens |-> estimatedTokens,
         maxTokens |-> maxTokens,
         warning |-> ~over /\ large,
         error |-> over]

\* the vague-prompt warning line that WARNING_PATTERN matches is the single
\* character "W" at the head of the text
separateWarningFromPrompt(fullText) ==
    IF fullText # <<>> /\ Head(fullText) = "W"
    THEN [warning |-> <<"W">>, promptContent |-> trim(Tail(fullText))]
    ELSE [warning |-> Null, promptContent |-> fullText]

\* HistoryManager.add
add(h, original, refined, model, framework, t) ==
    LET entry == [timestamp |-> t, originalPrompt |-> original,
                  refinedPrompt |-> refined, model |-> model,
                  framework |-> framework]
        h1 == <<entry>> \o h
    IN  IF Len(h1) > maxHistory THEN SubSeq(h1, 1, maxHistory) ELSE h1

\* the in-flight Map of the Gemini client, as the set of its keys
getInFlightRequest(m, key) == key \in m

setInFlightRequest(m, key) == m \cup { key }

clearInFlightRequest(m, key) == m \ { key }

\* the fragments the service has produced so far
RECURSIVE SumProduced(_)
SumProduced(ps) ==
    IF ps = {} THEN 0
    ELSE LET p == CHOOSE q \in ps : TRUE
         IN  Len(exec[p].produced) + SumProduced(ps \ { p })

\* the execution has been started and has not returned
Running(p) == exec[p].pc \notin { "idle", "returned" }

Logged(e, tags) == [e EXCEPT !.log = @ \o tags]

\* chatHandler returns: its frame is gone, and of tokenValidation there stays
\* what the gate has shown to the caller
Returned(e, result) ==
    [e EXCEPT !.pc = "returned", !.result = result,
              !.tokenValidation = IF result = "tooLong" THEN @ ELSE Null]

\* handleError: the type of a RefineryError is reported, any other error is
\* reported as UNKNOWN
handleError(e, error) ==
    LET type == IF error.instance = "RefineryError"
                THEN error.type ELSE "UNKNOWN"
    IN  Returned([Logged(e, <<"refinement_error">>)
                     EXCEPT !.thrown = Some(error), !.metadata = type],
                 "error")

\* the fingerprint, had the context hashed included the active file
cacheKeyOfWithFile(userInput, model, framework, fileContext) ==
    hash(userInput, model, contextHash(framework) \o fileContext)

\* the fingerprint of a request as chatHandler computes it, with the
\* project and file context gathered: the context hashed is the framework
cacheKeyOf(userInput, model, framework, fileContext) ==
    hash(userInput, model, contextHash(framework))

\* chatHandler on a cache hit, had it shown the cached text as it is and
\* skipped logCache('hit')
ServeCachedSilently(e, cachedResult) ==
    Returned([e EXCEPT !.cachedResult = Some(cachedResult),
                       !.shown = cachedResult],
             "cached")

\* chatHandler on a cache hit: logCache('hit'), the cached prompt shown
\* without its warning, the return
ServeCached(e, cachedResult) ==
    Returned([Logged(e, <<"logCache.hit">>)
                 EXCEPT !.cachedResult = Some(cachedResult),
                        !.shown =
                            separateWarningFromPrompt(cachedResult).promptContent],
             "cached")

\* chatHandler up to the await of ensureApiKey; the executions are named in
\* the order of their arrival
StartRequest(p, command, userInput) ==
    /\ ~hung
    /\ exec[p].pc = "idle"
    /\ p = "e2" => exec["e1"].pc # "idle"
    /\ LET e == [exec[p] EXCEPT !.userInput = userInput]
       IN  exec' = [exec EXCEPT ![p] =
               IF command # "" THEN Returned(e, command)
               ELSE IF trim(userInput) = <<>> THEN Returned(e, "welcome")
               ELSE [e EXCEPT !.pc = "ensureApiKey"]]
    /\ UNCHANGED <<cacheVars, history, calls, inFlightRequests, libVars>>

\* ensureApiKey resolves, had the handler gone on to the service without
\* the context, the token gate and the cache lookup
ApiKeyResolvedSkipping(p, apiKey) ==
    /\ ~hung
    /\ exec[p].pc = "ensureApiKey"
    /\ exec' = [exec EXCEPT ![p] =
           IF apiKey = NoApiKey THEN Returned(@, "setup")
           ELSE [@ EXCEPT !.pc = "generateContentStream"]]
    /\ UNCHANGED <<cacheVars, history, calls, inFlightRequests, libVars>>

\* ensureApiKey resolves: without a key the handler returns, with one it
\* awaits the context
ApiKeyResolved(p, apiKey) ==
    /\ ~hung
    /\ exec[p].pc = "ensureApiKey"
    /\ exec' = [exec EXCEPT ![p] =
           IF apiKey = NoApiKey THEN Returned(@, "setup")
           ELSE [@ EXCEPT !.pc = "getContext"]]
    /\ UNCHANGED <<cacheVars, history, calls, inFlightRequests, libVars>>

\* the context is there: the cancellation check, the token gate, the cache
\* lookup, and on a miss the start of streamFromGemini up to its await of
\* model.generateContentStream
ContextGathered(p, framework, model, estimatedTokens, fileContext) ==
    /\ ~hung
    /\ exec[p].pc = "getContext"
    /\ LET e0 == [exec[p] EXCEPT !.framework = framework, !.model = model,
                                 !.fileContext = Some(fileContext)]
           tokenValidation ==
               validateTokenCount(estimatedTokens, WarningThresholdPercent)
           cacheKey == cacheKeyOf(e0.userInput, model, framework, fileContext)
           r == get(cm, cacheKey, now)
           ev == [e0 EXCEPT !.tokenValidation = Some(tokenValidation)]
           e1 == Logged([ev EXCEPT !.cacheKey = cacheKey,
                                   !.cacheManager = cacheInstance],
                        <<"cache.get">>)
           cachedResult == IF r.result = Null THEN <<>> ELSE r.result[1]
       IN  IF e0.token
           THEN /\ exec' = [exec EXCEPT ![p] = Returned(e0, "cancelled")]
                /\ UNCHANGED <<cm, gets, calls>>
           ELSE IF ~tokenValidation.isValid
           THEN /\ exec' = [exec EXCEPT ![p] =
                       Returned(Logged(ev, <<"markdown.error">>), "tooLong")]
                /\ UNCHANGED <<cm, gets, calls>>
           ELSE IF cachedResult # <<>>
           THEN /\ cm' = r.cm
                /\ gets' = gets + 1
                /\ exec' = [exec EXCEPT ![p] = ServeCached(e1, cachedResult)]
                /\ UNCHANGED calls
           ELSE /\ cm' = r.cm
                /\ gets' = gets + 1
                /\ exec' = [exec EXCEPT ![p] =
                       [Logged(e1, <<"logCache.miss", "generateContentStream">>)
                           EXCEPT !.pc = "generateContentStream"]]
                /\ calls' = Append(calls, [by |-> p, fingerprint |-> cacheKey])
    /\ UNCHANGED <<now, hung, ret, history, inFlightRequests, libVars>>

\* model.generateContentStream resolves, had the request been registered
\* as in flight and never cleared
ServiceRespondsRegistering(p) ==
    /\ ~hung
    /\ exec[p].pc = "generateContentStream"
    /\ exec' = [exec EXCEPT ![p].pc = "stream"]
    /\ inFlightRequests' = setInFlightRequest(inFlightRequests, exec[p].cacheKey)
    /\ UNCHANGED <<cacheVars, history, calls, libVars>>

\* model.generateContentStream resolves: the generator goes on to the stream
ServiceResponds(p) ==
    /\ ~hung
    /\ exec[p].pc = "generateContentStream"
    /\ exec' = [exec EXCEPT ![p].pc = "stream"]
    /\ UNCHANGED <<cacheVars, history, calls, inFlightRequests, libVars>>

\* model.generateContentStream throws: the catch of chatHandler
ServiceRejects(p, error) ==
    /\ ~hung
    /\ exec[p].pc = "generateContentStream"
    /\ exec' = [exec EXCEPT ![p] = handleError(@, error)]
    /\ UNCHANGED <<cacheVars, history, calls, inFlightRequests, libVars>>

\* cacheManager.set, had chatHandler asked getCacheManager() again for the
\* store
cacheManagerSetCurrent(e, text) ==
    /\ cm' = set(cm, e.cacheKey, text, e.model, Len(e.userInput), now)
    /\ UNCHANGED discarded

\* cacheManager.set(cacheKey, ...) on the object the execution got from
\* getCacheManager() before its lookup: the one cacheInstance points to, or
\* one discarded since
cacheManagerSet(e, text) ==
    IF e.cacheManager = cacheInstance
    THEN /\ cm' = set(cm, e.cacheKey, text, e.model, Len(e.userInput), now)
         /\ UNCHANGED discarded
    ELSE /\ discarded' = [discarded EXCEPT ![e.cacheManager] =
                set(@, e.cacheKey, text, e.model, Len(e.userInput), now)]
         /\ UNCHANGED cm

\* chatHandler after the loop, had it recorded the history before storing
\* the result
AfterLoopRecordingFirst(p, e, fault) ==
    LET text == trim(e.refinedPrompt)
        sep == separateWarningFromPrompt(e.refinedPrompt)
        e1 == Logged(e, <<"history.add">>)
        e2 == IF text # <<>> THEN Logged(e1, <<"cache.set">>) ELSE e1
        e3 == Logged([e2 EXCEPT !.shown = sep.promptContent],
                     <<"refinement_complete">>)
    IN  /\ IF text # <<>> THEN cacheManagerSet(e, text)
                           ELSE UNCHANGED <<cm, discarded>>
        /\ history' = add(history, e.userInput, sep.promptContent, e.model,
                          e.framework, now)
        /\ exec' = [exec EXCEPT ![p] = Returned(e3, "completed")]

\* chatHandler after the for-await loop, by its end or by break; a sink
\* that throws takes the execution to the catch of chatHandler
AfterLoop(p, e, fault) ==
    LET text == trim(e.refinedPrompt)
        sep == separateWarningFromPrompt(e.refinedPrompt)
        e1 == IF text # <<>> THEN Logged(e, <<"cache.set">>) ELSE e
        e2 == Logged(e1, <<"history.add">>)
        e3 == Logged([e2 EXCEPT !.shown = sep.promptContent],
                     <<"refinement_complete">>)
    IN  /\ IF text # <<>> THEN cacheManagerSet(e, text)
                           ELSE UNCHANGED <<cm, discarded>>
        /\ history' = add(history, e.userInput, sep.promptContent, e.model,
                          e.framework, now)
        /\ exec' = [exec EXCEPT ![p] =
               IF fault = "saveHistory" THEN handleError(e2, SinkError)
               ELSE IF fault = "logger.info"
               THEN handleError([e2 EXCEPT !.shown = sep.promptContent],
                                SinkError)
               ELSE Returned(e3, "completed")]

\* the body of the loop, had it kept the last fragment in place of the
\* accumulated text
ForwardUnaccumulated(e, text) ==
    [Logged(e, <<"markdown.chunk">>)
        EXCEPT !.isFirstChunk = FALSE,
               !.refinedPrompt = text,
               !.forwarded = Append(@, text)]

\* the body of the loop, had it put the fragment before those already
\* forwarded
ForwardFirst(e, text) ==
    [Logged(e, <<"markdown.chunk">>)
        EXCEPT !.isFirstChunk = FALSE,
               !.refinedPrompt = text \o @,
               !.forwarded = <<text>> \o @]

\* the body of the for-await loop of chatHandler for a fragment, the token
\* not fired
Forward(e, text) ==
    [Logged(e, <<"markdown.chunk">>)
        EXCEPT !.isFirstChunk = FALSE,
               !.refinedPrompt = @ \o text,
               !.forwarded = Append(@, text)]

\* the onProgress of chatHandler, had it updated the progress at every call
onProgressUnthrottled(e, chars) ==
    Logged([e EXCEPT !.chunkCount = @ + 1, !.reported = Append(@, chars)],
           <<"progress">>)

\* the onProgress callback of chatHandler: it is called with the characters
\* so far, counts its calls and updates the progress at every fifth
onProgress(e, chars) ==
    LET e1 == [e EXCEPT !.chunkCount = @ + 1, !.reported = Append(@, chars)]
    IN  IF e1.chunkCount % 5 = 0 THEN Logged(e1, <<"progress">>) ELSE e1

\* the stream yields a fragment, the limit of the fragments not reached:
\* streamFromGemini skips an empty text, else adds its length to
\* totalChars, calls onProgress and yields it to the loop of chatHandler,
\* which breaks if the token has fired and else accumulates and forwards it
ChunkArrivesUpTo(p, text, limit) ==
    /\ ~hung
    /\ exec[p].pc = "stream"
    /\ SumProduced(Execs) < limit
    /\ LET e0 == [exec[p] EXCEPT !.produced = Append(@, text)]
           e1 == [e0 EXCEPT !.totalChars = @ + Len(text)]
           e2 == onProgress(e1, e1.totalChars)
       IN  IF text = <<>>
           THEN /\ exec' = [exec EXCEPT ![p] = e0]
                /\ UNCHANGED <<cm, history, discarded>>
           ELSE IF e2.token
           THEN AfterLoop(p, e2, NoFault)
           ELSE /\ exec' = [exec EXCEPT ![p] = Forward(e2, text)]
                /\ UNCHANGED <<cm, history, discarded>>
    /\ UNCHANGED <<now, gets, hung, ret, calls, inFlightRequests,
                   hashed, classified, retry, client, tokens>>

\* the stream yields a fragment
ChunkArrives(p, text) == ChunkArrivesUpTo(p, text, MaxChunks)

\* the service closes the stream: the loop ends
StreamCloses(p, fault) ==
    /\ ~hung
    /\ exec[p].pc = "stream"
    /\ AfterLoop(p, exec[p], fault)
    /\ UNCHANGED <<now, gets, hung, ret, calls, inFlightRequests,
                   hashed, classified, retry, client, tokens>>

\* the stream throws, had the request been made once more
StreamFailsRetrying(p, error) ==
    /\ ~hung
    /\ exec[p].pc = "stream"
    /\ Len(calls) < 4
    /\ exec' = [exec EXCEPT ![p] =
           [Logged(@, <<"generateContentStream">>)
               EXCEPT !.pc = "generateContentStream"]]
    /\ calls' = Append(calls, [by |-> p, fingerprint |-> exec[p].cacheKey])
    /\ UNCHANGED <<cacheVars, history, inFlightRequests, libVars>>

\* the stream throws, had the catch recorded what was accumulated
StreamFailsRecording(p, error) ==
    /\ ~hung
    /\ exec[p].pc = "stream"
    /\ history' = add(history, exec[p].userInput, exec[p].refinedPrompt,
                      exec[p].model, exec[p].framework, now)
    /\ exec' = [exec EXCEPT ![p] =
           handleError(Logged(@, <<"history.add">>), error)]
    /\ UNCHANGED <<cacheVars, calls, inFlightRequests, libVars>>

\* the stream throws: the catch of chatHandler
StreamFails(p, error) ==
    /\ ~hung
    /\ exec[p].pc = "stream"
    /\ exec' = [exec EXCEPT ![p] = handleError(@, error)]
    /\ UNCHANGED <<cacheVars, history, calls, inFlightRequests, libVars>>

\* the caller cancels, had the handler's token not shown it
CancelRequestedUnseen(p) ==
    /\ ~hung
    /\ Running(p)
    /\ exec[p].cancelledAt = NotCancelled
    /\ exec' = [exec EXCEPT ![p] =
           [Logged(@, <<"cancel">>)
               EXCEPT !.cancelledAt = [pc |-> exec[p].pc,
                                       forwarded |-> Len(exec[p].forwarded)]]]
    /\ UNCHANGED <<cacheVars, history, calls, inFlightRequests, libVars>>

\* the caller cancels: token.isCancellationRequested becomes true
CancelRequested(p) ==
    /\ ~hung
    /\ Running(p)
    /\ ~exec[p].token
    /\ exec' = [exec EXCEPT ![p] =
           [Logged(@, <<"cancel">>)
               EXCEPT !.token = TRUE,
                      !.cancelledAt = [pc |-> exec[p].pc,
                                       forwarded |-> Len(exec[p].forwarded)]]]
    /\ UNCHANGED <<cacheVars, history, calls, inFlightRequests, libVars>>

\* the clock advances
PassTime ==
    /\ now < MaxClock
    /\ now' = now + 1
    /\ UNCHANGED <<cm, gets, hung, ret, pipeVars, libVars>>

InitPipeline ==
    /\ \E size \in PipelineSizes, ttl \in ConfigTTLs :
           cm = NewCacheManager(size, ttl)
    /\ now = 0
    /\ gets = 0
    /\ hung = FALSE
    /\ ret = [op |-> "new", key |-> NoKey, result |-> Null, pre |-> cm, at |-> 0]
    /\ PipelineIdle
    /\ LibIdle

NextPipeline ==
    \/ \E p \in Execs, command \in Commands, userInput \in UserInputs :
           StartRequest(p, command, userInput)
    \/ \E p \in Execs, apiKey \in ApiKeys : ApiKeyResolved(p, apiKey)
    \/ \E p \in Execs, framework \in Frameworks, model \in Models,
          estimatedTokens \in TokenEstimates,
          fileContext \in PipelineFileContexts :
           ContextGathered(p, framework, model, estimatedTokens, fileContext)
    \/ \E p \in Execs : ServiceResponds(p)
    \/ \E p \in Execs, error \in PipelineErrors : ServiceRejects(p, error)
    \/ \E p \in Execs, text \in ChunkTexts : ChunkArrives(p, text)
    \/ \E p \in Execs : StreamCloses(p, NoFault)
    \/ \E p \in Execs, error \in PipelineErrors : StreamFails(p, error)
    \/ \E p \in Execs : CancelRequested(p)
    \/ PassTime

SpecPipeline == InitPipeline /\ [][NextPipeline]_vars

----------------------------------------------------------------------------
(* chatHandler: what the claims speak of *)

\* the calls of generateContentStream that the executions of ps have made
CallsBy(ps) == { i \in 1 .. Len(calls) : calls[i].by \in ps }

\* the tag occurs in the log of the execution
Did(p, tag) == \E i \in 1 .. Len(exec[p].log) : exec[p].log[i] = tag

\* the token of p fired while p was in its for-await loop, after at least one
\* fragment had been forwarded
CancelledMidStream(p) ==
    /\ exec[p].cancelledAt.pc = "stream"
    /\ exec[p].cancelledAt.forwarded >= 1

----------------------------------------------------------------------------
(* C1 *)

\* C1: two executions of chatHandler that are under way at the same time
\* for the same fingerprint (same userInput, model and framework) make one
\* call of generateContentStream between them, not two.  (The claim as
\* stated; chatHandler never consults the in-flight Map.)
C1_OneServiceCallPerFingerprint ==
    \A p \in Execs, q \in Execs :
        (/\ p # q
         /\ Running(p) /\ Running(q)
         /\ exec[p].cacheKey # NoKey
         /\ exec[p].cacheKey = exec[q].cacheKey)
        => Cardinality(CallsBy({ p, q })) <= 1

----------------------------------------------------------------------------
(* C2 *)

\* C2: an execution whose token fired mid-stream, after one or more
\* fragments were forwarded, returns without having stored a cache entry
\* (cacheManager.set) and without having added a history record
\* (historyManager.add).  (The claim as stated; the break of the loop falls
\* through to the code that caches and records.)
C2_CancelMidStreamStoresNothing ==
    \A p \in Execs :
        (exec[p].pc = "returned" /\ CancelledMidStream(p))
        => (~Did(p, "cache.set") /\ ~Did(p, "history.add"))

----------------------------------------------------------------------------
(* C19 *)

\* the execution has validated its prompt and still holds the result
Validated(p) == exec[p].tokenValidation # Null

\* the estimate of the prompt of p is at or above the ceiling
AtOrOverCeiling(p) ==
    /\ Validated(p)
    /\ exec[p].tokenValidation[1].estimatedTokens
           >= exec[p].tokenValidation[1].maxTokens

\* the estimate of the prompt of p is at or above the warning threshold and
\* below the ceiling
InWarningZone(p) ==
    /\ Validated(p)
    /\ LET v == exec[p].tokenValidation[1]
       IN  /\ v.estimatedTokens * 100 >= WarningThresholdPercent * v.maxTokens
           /\ v.estimatedTokens < v.maxTokens

\* C19: an execution whose prompt is estimated at or above the ceiling
\* (usage >= 100%) has returned at the gate: it has made no call of
\* generateContentStream, has neither read nor written the cache, has added
\* no history record and has forwarded nothing but the error of the gate.
C19_TokenGateStopsBeforeCacheAndService ==
    \A p \in Execs :
        AtOrOverCeiling(p) =>
            /\ exec[p].pc = "returned"
            /\ exec[p].result = "tooLong"
            /\ exec[p].log = <<"markdown.error">>
            /\ CallsBy({ p }) = {}
            /\ exec[p].cacheKey = NoKey
            /\ exec[p].forwarded = <<>>
            /\ ~Did(p, "generateContentStream")
            /\ ~Did(p, "cache.get") /\ ~Did(p, "cache.set")
            /\ ~Did(p, "history.add")

\* an execution has returned at the gate with an estimate equal to the
\* ceiling, while the other execution, with the same input, went on to call
\* the service
C19_Witness ==
    \E p \in Execs, q \in Execs :
        /\ p # q
        /\ AtOrOverCeiling(p)
        /\ exec[p].tokenValidation[1].estimatedTokens = DEFAULT_TOKEN_LIMIT
        /\ exec[p].result = "tooLong"
        /\ exec[q].userInput = exec[p].userInput
        /\ CallsBy({ q }) # {}
        /\ CallsBy({ p }) = {}

----------------------------------------------------------------------------
(* C20 *)

\* C20: an execution whose prompt is estimated at or above the warning
\* threshold (80%) and below the ceiling goes on to the cache lookup, and
\* the warning of validateTokenCount is shown to the caller.  (The claim as
\* stated; chatHandler reads isValid and error of the validation and never
\* its warning.)
C20_WarningZoneProceedsWithWarning ==
    \A p \in Execs :
        InWarningZone(p) =>
            /\ Did(p, "cache.get")
            /\ exec[p].tokenValidation[1].warning
            /\ Did(p, "markdown.warning")

----------------------------------------------------------------------------
(* C21 *)

\* the execution was served from the cache
ServedFromCache(p) == exec[p].result = "cached"

\* the execution stored text under its fingerprint
StoredBy(q, text) ==
    /\ Did(q, "cache.set")
    /\ trim(exec[q].refinedPrompt) = text

\* C21: an execution that hit the cache has returned right after the
\* lookup: what it showed is the value the cache held under its fingerprint,
\* stored there by another execution, it made no call of
\* generateContentStream, did not write to the cache (no cacheManager.set),
\* forwarded no fragment, and logged the cache hit.
C21_CacheHitGoesDirectlyToDone ==
    \A p \in Execs :
        ServedFromCache(p) =>
            /\ exec[p].pc = "returned"
            /\ exec[p].log = <<"cache.get", "logCache.hit">>
            /\ exec[p].cachedResult # Null
            /\ exec[p].shown =
                   separateWarningFromPrompt(exec[p].cachedResult[1]).promptContent
            /\ \E q \in Execs \ { p } :
                   /\ exec[q].cacheKey = exec[p].cacheKey
                   /\ StoredBy(q, exec[p].cachedResult[1])
            /\ CallsBy({ p }) = {}
            /\ exec[p].forwarded = <<>>
            /\ ~Did(p, "cache.set")

\* an execution was served the text that an earlier execution had streamed
\* and stored
C21_Witness ==
    \E p \in Execs, q \in Execs :
        /\ p # q
        /\ ServedFromCache(p)
        /\ exec[p].shown = <<"x">>
        /\ exec[q].result = "completed"
        /\ StoredBy(q, <<"x">>)
        /\ Cardinality(CallsBy({ p, q })) = 1

----------------------------------------------------------------------------
(* C22 *)

\* the execution was neither cancelled nor failed
Undisturbed(p) == ~exec[p].token /\ exec[p].thrown = Null

\* of the fragments the service produced, those that streamFromGemini
\* yields: the ones whose text is not empty
Yielded(produced) == SelectSeq(produced, LAMBDA text : text # <<>>)

\* C22 as stated: in a stream that was neither cancelled nor failed, the
\* fragments forwarded to the caller are exactly the fragments the service
\* produced, in their order, none dropped.  (streamFromGemini drops the
\* fragments whose text is empty.)
C22_ForwardedAreTheProduced ==
    \A p \in Execs :
        Undisturbed(p) => exec[p].forwarded = exec[p].produced

\* C22: in a stream that was neither cancelled nor failed, the fragments
\* forwarded to the caller are exactly the fragments with a text that is not
\* empty which the service produced, in their order, none merged, none
\* dropped.
C22_ForwardedAreTheProducedWithText ==
    \A p \in Execs :
        Undisturbed(p) => exec[p].forwarded = Yielded(exec[p].produced)

\* a stream has ended in which the service produced two fragments with
\* different texts and both were forwarded
C22_Witness ==
    \E p \in Execs :
        /\ Undisturbed(p)
        /\ exec[p].result = "completed"
        /\ Len(exec[p].forwarded) = 2
        /\ exec[p].forwarded[1] # exec[p].forwarded[2]

----------------------------------------------------------------------------
(* C23 *)

\* the fragments joined in their order
RECURSIVE Concatenation(_)
Concatenation(fragments) ==
    IF fragments = <<>> THEN <<>>
    ELSE Head(fragments) \o Concatenation(Tail(fragments))

\* the step in which the stream of p ends and p returns as completed, its
\* token not fired
Completes(p) ==
    /\ exec[p].pc = "stream"
    /\ ~exec[p].token
    /\ exec'[p].result = "completed"

\* C23 as stated: when an execution that missed the cache completes without
\* error or cancellation, the cache holds under its fingerprint the
\* concatenation, in order, of the fragments it forwarded.  (chatHandler
\* stores refinedPrompt.trim(), and stores nothing when that is empty.)
C23_CachedIsConcatenation ==
    [][\A p \in Execs :
          Completes(p) =>
              /\ MapHas(cm'.cache, exec[p].cacheKey)
              /\ MapEntry(cm'.cache, exec[p].cacheKey).value
                     = Concatenation(exec'[p].forwarded)]_vars

\* C23: when an execution that missed the cache completes without error or
\* cancellation, then, if the concatenation in order of the fragments it
\* forwarded is more than whitespace, the cache holds under its fingerprint
\* that concatenation without its leading and trailing whitespace, and
\* otherwise the cache is left as it was.
C23_CachedIsTrimmedConcatenation ==
    [][\A p \in Execs :
          Completes(p) =>
              LET text == trim(Concatenation(exec'[p].forwarded))
              IN  IF text # <<>>
                  THEN /\ MapHas(cm'.cache, exec[p].cacheKey)
                       /\ MapEntry(cm'.cache, exec[p].cacheKey).value = text
                  ELSE cm' = cm]_vars

\* an execution completed after forwarding two fragments, the first with
\* leading whitespace, and the cache holds their trimmed concatenation under
\* its fingerprint
C23_Witness ==
    \E p \in Execs :
        /\ Undisturbed(p)
        /\ exec[p].result = "completed"
        /\ exec[p].forwarded = << <<" ">>, <<"x">> >>
        /\ MapHas(cm.cache, exec[p].cacheKey)
        /\ MapEntry(cm.cache, exec[p].cacheKey).value = <<"x">>

----------------------------------------------------------------------------
(* C24 *)

\* generateContentStream or the stream of p threw
ServiceFailed(p) ==
    /\ exec[p].thrown # Null
    /\ exec[p].thrown[1] # SinkError

\* C24: an execution whose service call or stream failed, before or after
\* fragments were forwarded, has returned with the error, has written no
\* cache entry (no cacheManager.set) and has added no history record (no
\* historyManager.add).
C24_FailuresAreNeitherCachedNorRecorded ==
    \A p \in Execs :
        ServiceFailed(p) =>
            /\ exec[p].pc = "returned"
            /\ exec[p].result = "error"
            /\ ~Did(p, "cache.set")
            /\ ~Did(p, "history.add")
            /\ ~Did(p, "refinement_complete")

\* one execution failed before any fragment and the other after a fragment
\* was forwarded, and neither the cache nor the history holds anything
C24_Witness ==
    \E p \in Execs, q \in Execs :
        /\ ServiceFailed(p) /\ exec[p].forwarded = <<>>
        /\ ServiceFailed(q) /\ Len(exec[q].forwarded) >= 1
        /\ cm.cache = <<>>
        /\ history = <<>>

----------------------------------------------------------------------------
(* C26 *)

\* s is the beginning of t
IsPrefix(s, t) ==
    /\ Len(s) <= Len(t)
    /\ \A i \in 1 .. Len(s) : s[i] = t[i]

\* C26: an execution makes at most one call of generateContentStream, what
\* it has forwarded is the beginning of what the stream has yielded, each
\* fragment once, and an execution whose stream threw has returned with
\* the error without a further call.
C26_MidStreamFailureIsNotRetried ==
    \A p \in Execs :
        /\ Cardinality(CallsBy({ p })) <= 1
        /\ IsPrefix(exec[p].forwarded, Yielded(exec[p].produced))
        /\ ServiceFailed(p) =>
               /\ exec[p].pc = "returned"
               /\ exec[p].log[Len(exec[p].log)] = "refinement_error"

\* the stream of an execution threw after two fragments were forwarded,
\* and the execution has made its one call
C26_Witness ==
    \E p \in Execs :
        /\ ServiceFailed(p)
        /\ Len(exec[p].forwarded) = 2
        /\ Cardinality(CallsBy({ p })) = 1
        /\ exec[p].result = "error"

----------------------------------------------------------------------------
(* C27 *)

\* the execution went as far as its fingerprint and has returned
Settled(p) ==
    /\ exec[p].pc = "returned"
    /\ exec[p].cacheKey # NoKey

\* C27: once an execution has returned, by success, failure or
\* cancellation, the in-flight Map holds no entry for its fingerprint.
\* (chatHandler never registers a request in the Map, so the Map is empty
\* throughout.)
C27_NoInFlightEntryLeaks ==
    \A p \in Execs :
        Settled(p) => ~getInFlightRequest(inFlightRequests, exec[p].cacheKey)

\* one execution has returned completed and the other, cancelled, with an
\* error, and the in-flight Map is empty
C27_Witness ==
    \E p \in Execs, q \in Execs :
        /\ Settled(p) /\ exec[p].result = "completed" /\ Undisturbed(p)
        /\ Settled(q) /\ exec[q].result = "error" /\ exec[q].token
        /\ inFlightRequests = {}

----------------------------------------------------------------------------
(* C29 *)

\* what the execution has done to the caller's stream, the cache, the
\* history and the telemetry of completion, in the order of the doing
SideEffects(p) ==
    SelectSeq(exec[p].log,
              LAMBDA tag : tag \in { "markdown.chunk", "cache.set",
                                     "history.add", "refinement_complete" })

\* one forwarding for each of the fragments
Forwardings(fragments) == [i \in 1 .. Len(fragments) |-> "markdown.chunk"]

\* C29 as stated: in every execution the side effects occur in the order:
\* the forwarding of the fragments up to the last, then the cache store,
\* then the history record, then the completion event; history record and
\* completion event never occur before the result is stored.  (A result
\* that is blank is recorded and reported complete without being stored.)
C29_SideEffectsInOrderAfterStore ==
    \A p \in Execs :
        IsPrefix(SideEffects(p),
                 Forwardings(exec[p].forwarded)
                     \o <<"cache.set", "history.add", "refinement_complete">>)

\* what holds of C29: in every execution the side effects occur in the
\* order: the forwarding of the fragments up to the last, then the cache
\* store if the result is not blank, then the history record, then the
\* completion event; history record and completion event never occur
\* earlier.
C29_SideEffectsInOrder ==
    \A p \in Execs :
        LET blank == trim(Concatenation(exec[p].forwarded)) = <<>>
        IN  IsPrefix(SideEffects(p),
                     Forwardings(exec[p].forwarded)
                         \o (IF blank THEN <<>> ELSE <<"cache.set">>)
                         \o <<"history.add", "refinement_complete">>)

\* an execution has forwarded two fragments, then stored, recorded and
\* reported its result
C29_Witness ==
    \E p \in Execs :
        /\ Undisturbed(p)
        /\ SideEffects(p) = <<"markdown.chunk", "markdown.chunk", "cache.set",
                              "history.add", "refinement_complete">>

----------------------------------------------------------------------------
(* C32 *)

\* the number of times the tag occurs in the log of the execution
Times(p, tag) ==
    Cardinality({ i \in 1 .. Len(exec[p].log) : exec[p].log[i] = tag })

\* the stream of p ended, neither cancelled nor failed, and p returned
CompletedUndisturbed(p) == exec[p].result = "completed" /\ Undisturbed(p)

\* C32: an execution whose stream ended with text that is not blank has
\* stored one cache entry and added one history record, and an execution
\* whose stream ended with empty or whitespace-only text has stored no
\* cache entry and added no history record.  (The claim as stated;
\* historyManager.add is called after every stream that ends, whatever the
\* text.)
C32_WritesOnlyForNonEmptyText ==
    \A p \in Execs :
        CompletedUndisturbed(p) =>
            IF trim(exec[p].refinedPrompt) # <<>>
            THEN Times(p, "cache.set") = 1 /\ Times(p, "history.add") = 1
            ELSE Times(p, "cache.set") = 0 /\ Times(p, "history.add") = 0

----------------------------------------------------------------------------
(* C33 *)

\* cancellation was requested before the context of p was gathered
CancelledBeforeContext(p) ==
    exec[p].cancelledAt.pc \in { "ensureApiKey", "getContext" }

\* cancellation was requested while p awaited the service or its stream
CancelledAtService(p) ==
    exec[p].cancelledAt.pc \in { "generateContentStream", "stream" }

\* the executions that have consulted the cache
Consulted == { p \in Execs : Did(p, "cache.get") }

\* C33: an execution for which cancellation was requested by the time its
\* context was gathered ends without consulting the cache (the hit and
\* miss counters count the lookups of the other executions only), without
\* a call of generateContentStream and without a history record; and an
\* execution cancelled later has forwarded and accumulated no fragment
\* that arrived after the request.
C33_CancellationStopsBeforeServiceAndFragments ==
    /\ cm.hits + cm.misses = Cardinality(Consulted)
    /\ \A p \in Execs :
           /\ CancelledBeforeContext(p) =>
                  /\ exec[p].pc = "returned" =>
                         exec[p].result \in { "cancelled", "setup" }
                  /\ p \notin Consulted
                  /\ exec[p].cacheKey = NoKey
                  /\ CallsBy({ p }) = {}
                  /\ ~Did(p, "history.add")
                  /\ exec[p].forwarded = <<>>
           /\ CancelledAtService(p) =>
                  /\ Len(exec[p].forwarded) = exec[p].cancelledAt.forwarded
                  /\ exec[p].refinedPrompt = Concatenation(exec[p].forwarded)

\* one execution was cancelled while its context was gathered and has
\* returned; the other was cancelled after its first fragment, and the
\* second fragment of the service was not forwarded
C33_Witness ==
    \E p \in Execs, q \in Execs :
        /\ exec[p].cancelledAt.pc = "getContext"
        /\ exec[p].result = "cancelled"
        /\ exec[q].cancelledAt = [pc |-> "stream", forwarded |-> 1]
        /\ Yielded(exec[q].produced) = << <<"x">>, <<"x">> >>
        /\ exec[q].forwarded = << <<"x">> >>
        /\ cm.misses = 1

----------------------------------------------------------------------------
(***************************************************************************)
(* Part 3: the functions of the pipeline taken alone: CacheManager.hash,   *)
(* classifyError and withRetry (src/src/utils/tokenCounter.ts).            *)
(***************************************************************************)

\* the cache as the constructor's defaults make it, with no call made
CacheIdle ==
    /\ cm = NewCacheManager(50, 3600000)
    /\ now = 0
    /\ gets = 0
    /\ hung = FALSE
    /\ ret = [op |-> "new", key |-> NoKey, result |-> Null, pre |-> cm, at |-> 0]

----------------------------------------------------------------------------
(* CacheManager.hash *)

\* request.prompt: any text, the separator of hash among its characters
HashUserInputs == { <<"a">>, <<"b">>, <<"a", "|", "m">> }

\* refinery.model: any string the settings hold
HashModels == { <<"m">>, <<"m", "|", "m">> }

HashContexts == { contextHash(NoFramework), contextHash(<<"r">>) }

Triples ==
    [userInput : HashUserInputs, model : HashModels,
     projectContext : HashContexts]

\* hash is called on the next of the triples given
Hash ==
    /\ Len(hashed.results) < Len(hashed.inputs)
    /\ LET t == hashed.inputs[Len(hashed.results) + 1]
       IN  hashed' = [hashed EXCEPT !.results =
               Append(@, hash(t.userInput, t.model, t.projectContext))]
    /\ UNCHANGED <<cacheVars, pipeVars, classified, retry, svcVars>>

InitHash ==
    /\ CacheIdle
    /\ PipelineIdle
    /\ SvcIdle
    /\ \E a \in Triples, b \in Triples :
           hashed = [inputs |-> <<a, b>>, results |-> <<>>]
    /\ classified = [error |-> "none", parts |-> <<>>, results |-> <<>>]
    /\ retry = [pc |-> "idle"]

NextHash == Hash

SpecHash == InitHash /\ [][NextHash]_vars

----------------------------------------------------------------------------
(* C12 *)

\* C12: hash is deterministic, and two triples (userInput, model, context)
\* that differ in at least one element get different fingerprints.  (The
\* claim as stated; the three elements are joined by "|" before the digest,
\* so a "|" inside an element moves the boundary: ("a|m", "m", c) and
\* ("a", "m|m", c) are one string and one fingerprint.)
C12_DistinctTriplesDistinctFingerprints ==
    Len(hashed.results) = 2 =>
        /\ hashed.inputs[1] = hashed.inputs[2]
               => hashed.results[1] = hashed.results[2]
        /\ hashed.inputs[1] # hashed.inputs[2]
               => hashed.results[1] # hashed.results[2]

----------------------------------------------------------------------------
(* classifyError: text *)

UpperCase ==
    <<"A", "B", "C", "D", "E", "F", "G", "H", "I", "J", "K", "L", "M",
      "N", "O", "P", "Q", "R", "S", "T", "U", "V", "W", "X", "Y", "Z">>

LowerCase ==
    <<"a", "b", "c", "d", "e", "f", "g", "h", "i", "j", "k", "l", "m",
      "n", "o", "p", "q", "r", "s", "t", "u", "v", "w", "x", "y", "z">>

\* String.prototype.toLowerCase
toLowerCase(s) ==
    [i \in 1 .. Len(s) |->
        IF \E k \in 1 .. 26 : UpperCase[k] = s[i]
        THEN LowerCase[CHOOSE k \in 1 .. 26 : UpperCase[k] = s[i]]
        ELSE s[i]]

\* sub occurs in s at position i
StartsWithAt(s, i, sub) ==
    /\ i + Len(sub) - 1 <= Len(s)
    /\ SubSeq(s, i, i + Len(sub) - 1) = sub

\* String.prototype.includes
includes(s, sub) == \E i \in 1 .. Len(s) : StartsWithAt(s, i, sub)

\* \d
IsDigit(c) == c \in { "0", "1", "2", "3", "4", "5", "6", "7", "8", "9" }

\* \s
IsSpace(c) == c \in { " ", "\t", "\n" }

\* \d+ and \s* are greedy: the first position from i on that is no digit
RECURSIVE SkipDigits(_, _)
SkipDigits(s, i) ==
    IF i <= Len(s) /\ IsDigit(s[i]) THEN SkipDigits(s, i + 1) ELSE i

RECURSIVE SkipSpaces(_, _)
SkipSpaces(s, i) ==
    IF i <= Len(s) /\ IsSpace(s[i]) THEN SkipSpaces(s, i + 1) ELSE i

DigitValue(c) ==
    CASE c = "0" -> 0 [] c = "1" -> 1 [] c = "2" -> 2 [] c = "3" -> 3
      [] c = "4" -> 4 [] c = "5" -> 5 [] c = "6" -> 6 [] c = "7" -> 7
      [] c = "8" -> 8 [] c = "9" -> 9

\* parseInt(digits, 10)
RECURSIVE parseInt(_)
parseInt(d) ==
    IF d = <<>> THEN 0
    ELSE parseInt(SubSeq(d, 1, Len(d) - 1)) * 10 + DigitValue(d[Len(d)])

\* (second|minute|sec|min), in the order of the alternation
RetryUnits ==
    << <<"s", "e", "c", "o", "n", "d">>, <<"m", "i", "n", "u", "t", "e">>,
       <<"s", "e", "c">>, <<"m", "i", "n">> >>

\* the unit that the alternation matches at position k, Null when none
UnitAt(s, k) ==
    IF \E u \in 1 .. Len(RetryUnits) : StartsWithAt(s, k, RetryUnits[u])
    THEN LET u == CHOOSE v \in 1 .. Len(RetryUnits) :
                      /\ StartsWithAt(s, k, RetryUnits[v])
                      /\ \A w \in 1 .. (v - 1) :
                             ~StartsWithAt(s, k, RetryUnits[w])
         IN  Some(RetryUnits[u])
    ELSE Null

\* /(\d+)\s*(second|minute|sec|min)/ matches from position i
MatchesAt(s, i) ==
    /\ IsDigit(s[i])
    /\ UnitAt(s, SkipSpaces(s, SkipDigits(s, i))) # Null

\* lowerMessage.match(...): the leftmost match with its two groups, or Null
retryMatch(s) ==
    IF \E i \in 1 .. Len(s) : MatchesAt(s, i)
    THEN LET i == CHOOSE j \in 1 .. Len(s) :
                      /\ MatchesAt(s, j)
                      /\ \A k \in 1 .. (j - 1) : ~MatchesAt(s, k)
             e == SkipDigits(s, i)
         IN  Some([digits |-> SubSeq(s, i, e - 1),
                   unit |-> UnitAt(s, SkipSpaces(s, e))[1]])
    ELSE Null

\* retryAfterMs that takes every hint for seconds
retryAfterMsSecondsOnly(lowerMessage) ==
    LET m == retryMatch(lowerMessage)
    IN  IF m # Null THEN parseInt(m[1].digits) * 1000 ELSE 60 * 1000

\* the retry-after time of a rate-limit message
retryAfterMs(lowerMessage) ==
    LET m == retryMatch(lowerMessage)
    IN  IF m # Null
        THEN LET value == parseInt(m[1].digits)
                 unit == m[1].unit
             IN  IF StartsWithAt(unit, 1, <<"m", "i", "n">>)
                 THEN value * 60 * 1000
                 ELSE value * 1000
        ELSE 60 * 1000

----------------------------------------------------------------------------
(* classifyError: the rules, in the order of the code *)

AuthRule ==
    [type |-> "AUTH", retryable |-> FALSE,
     suggestedAction |-> "Update your API key using the \"Refinery: Set API Key\" command.",
     signals |-> { <<"a", "p", "i", " ", "k", "e", "y">>,
                  <<"u", "n", "a", "u", "t", "h", "o", "r", "i", "z", "e", "d">>,
                  <<"4", "0", "1">>,
                  <<"i", "n", "v", "a", "l", "i", "d", " ", "k", "e", "y">>,
                  <<"p", "e", "r", "m", "i", "s", "s", "i", "o", "n", " ", "d", "e", "n", "i", "e", "d">> }]

RateLimitRule ==
    [type |-> "RATE_LIMIT", retryable |-> TRUE,
     suggestedAction |-> "Wait a moment before trying again.",
     signals |-> { <<"r", "a", "t", "e", " ", "l", "i", "m", "i", "t">>,
                  <<"4", "2", "9">>,
                  <<"q", "u", "o", "t", "a">>,
                  <<"t", "o", "o", " ", "m", "a", "n", "y", " ", "r", "e", "q", "u", "e", "s", "t", "s">> }]

NetworkRule ==
    [type |-> "NETWORK", retryable |-> TRUE,
     suggestedAction |-> "Check your internet connection and try again.",
     signals |-> { <<"n", "e", "t", "w", "o", "r", "k">>,
                  <<"t", "i", "m", "e", "o", "u", "t">>,
                  <<"e", "c", "o", "n", "n", "r", "e", "f", "u", "s", "e", "d">>,
                  <<"e", "n", "o", "t", "f", "o", "u", "n", "d">>,
                  <<"f", "e", "t", "c", "h", " ", "f", "a", "i", "l", "e", "d">>,
                  <<"f", "a", "i", "l", "e", "d", " ", "t", "o", " ", "f", "e", "t", "c", "h">> }]

\* the token rule with retryable set
TokenOverflowRuleRetryable ==
    [type |-> "TOKEN_OVERFLOW", retryable |-> TRUE,
     suggestedAction |-> "Shorten your prompt and try again.",
     signals |-> { <<"t", "o", "k", "e", "n">>,
                  <<"c", "o", "n", "t", "e", "x", "t", " ", "l", "e", "n", "g", "t", "h">>,
                  <<"t", "o", "o", " ", "l", "o", "n", "g">>,
                  <<"m", "a", "x", "i", "m", "u", "m">> }]

TokenOverflowRule ==
    [type |-> "TOKEN_OVERFLOW", retryable |-> FALSE,
     suggestedAction |-> "Shorten your prompt and try again.",
     signals |-> { <<"t", "o", "k", "e", "n">>,
                  <<"c", "o", "n", "t", "e", "x", "t", " ", "l", "e", "n", "g", "t", "h">>,
                  <<"t", "o", "o", " ", "l", "o", "n", "g">>,
                  <<"m", "a", "x", "i", "m", "u", "m">> }]

ApiErrorRule ==
    [type |-> "API_ERROR", retryable |-> TRUE,
     suggestedAction |-> "The API is temporarily unavailable. Please try again.",
     signals |-> { <<"5", "0", "0">>,
                  <<"5", "0", "2">>,
                  <<"5", "0", "3">>,
                  <<"i", "n", "t", "e", "r", "n", "a", "l", " ", "s", "e", "r", "v", "e", "r", " ", "e", "r", "r", "o", "r">>,
                  <<"s", "e", "r", "v", "i", "c", "e", " ", "u", "n", "a", "v", "a", "i", "l", "a", "b", "l", "e">> }]

\* the rules with the network rule before the rate-limit rule
RulesNetworkFirst ==
    <<AuthRule, NetworkRule, RateLimitRule, TokenOverflowRule, ApiErrorRule>>

Rules ==
    <<AuthRule, RateLimitRule, NetworkRule, TokenOverflowRule, ApiErrorRule>>

\* new RefineryError(...)
RefineryError(message, type, retryable, suggestedAction, retryAfter) ==
    [instance |-> "RefineryError", message |-> message, type |-> type,
     retryable |-> retryable, suggestedAction |-> suggestedAction,
     retryAfterMs |-> retryAfter]

\* what is thrown: an Error with a message, or a value that is no Error and
\* whose String(...) is the message
Thrown(instance, message) == [instance |-> instance, message |-> message]

classifyError(error) ==
    IF error.instance = "RefineryError" THEN error
    ELSE LET errorMessage == error.message
             lowerMessage == toLowerCase(errorMessage)
             Applies(rule) ==
                 \E signal \in rule.signals : includes(lowerMessage, signal)
         IN  IF \E i \in 1 .. Len(Rules) : Applies(Rules[i])
             THEN LET i == CHOOSE j \in 1 .. Len(Rules) :
                               /\ Applies(Rules[j])
                               /\ \A k \in 1 .. (j - 1) : ~Applies(Rules[k])
                      rule == Rules[i]
                  IN  RefineryError(errorMessage, rule.type, rule.retryable,
                          rule.suggestedAction,
                          IF rule.type = "RATE_LIMIT"
                          THEN Some(retryAfterMs(lowerMessage))
                          ELSE Null)
             ELSE RefineryError(errorMessage, "UNKNOWN", FALSE,
                      "An unexpected error occurred.", Null)

----------------------------------------------------------------------------
(* classifyError: the errors it is given *)

\* a message is made of at most MaxParts fragments
MaxParts == 2

Seconds(n) == Some([n |-> n, unit |-> "seconds"])

Minutes(n) == Some([n |-> n, unit |-> "minutes"])

\* fragments of the messages of the service and the network; each with the
\* rule whose signal it carries ("NONE": no rule) and the wait it states
Fragments ==
    {
      [text |-> <<"A", "P", "I", " ", "k", "e", "y">>, signal |-> "AUTH", hint |-> Null],
      [text |-> <<"4", "0", "1">>, signal |-> "AUTH", hint |-> Null],
      [text |-> <<"Q", "u", "o", "t", "a">>, signal |-> "RATE_LIMIT", hint |-> Null],
      [text |-> <<"4", "2", "9">>, signal |-> "RATE_LIMIT", hint |-> Null],
      [text |-> <<"t", "i", "m", "e", "o", "u", "t">>, signal |-> "NETWORK", hint |-> Null],
      [text |-> <<"t", "o", "k", "e", "n", "s">>, signal |-> "TOKEN_OVERFLOW", hint |-> Null],
      [text |-> <<"5", "0", "3">>, signal |-> "API_ERROR", hint |-> Null],
      [text |-> <<"o", "o", "p", "s">>, signal |-> "NONE", hint |-> Null],
      [text |-> <<"5", " ", "S", "e", "c", "o", "n", "d", "s">>, signal |-> "NONE", hint |-> Seconds(5)],
      [text |-> <<"2", "m", "i", "n">>, signal |-> "NONE", hint |-> Minutes(2)],
      [text |-> <<"1", "2", " ", "s", "e", "c">>, signal |-> "NONE", hint |-> Seconds(12)]
    }

PartSeqs == UNION { [1 .. n -> Fragments] : n \in 1 .. MaxParts }

\* the fragments joined by blanks
RECURSIVE JoinParts(_)
JoinParts(parts) ==
    IF Len(parts) = 1 THEN parts[1].text
    ELSE parts[1].text \o <<" ">> \o JoinParts(Tail(parts))

\* errors that were classified before they were thrown
ClassifiedErrors ==
    { RefineryError(<<"4", "0", "1">>, "INVALID_INPUT", FALSE, "", Null),
      RefineryError(<<"o", "o", "p", "s">>, "NETWORK", TRUE, "", Some(7)) }

\* classifyError is called, on the error given and then on what it returned
Classify ==
    /\ Len(classified.results) < 2
    /\ classified' = [classified EXCEPT !.results =
           Append(@, classifyError(IF classified.results = <<>>
                                   THEN classified.error
                                   ELSE classified.results[1]))]
    /\ UNCHANGED <<cacheVars, pipeVars, hashed, retry, svcVars>>

InitClassify ==
    /\ CacheIdle
    /\ PipelineIdle
    /\ SvcIdle
    /\ hashed = [inputs |-> <<>>, results |-> <<>>]
    /\ \/ \E parts \in PartSeqs, instance \in { "Error", "string" } :
              classified = [error |-> Thrown(instance, JoinParts(parts)),
                            parts |-> parts, results |-> <<>>]
       \/ \E e \in ClassifiedErrors :
              classified = [error |-> e, parts |-> <<>>, results |-> <<>>]
    /\ retry = [pc |-> "idle"]

NextClassify == Classify

SpecClassify == InitClassify /\ [][NextClassify]_vars

----------------------------------------------------------------------------
(* classifyError: what the claims speak of *)

\* the error given was not classified before
RawGiven == classified.error.instance # "RefineryError"

\* classifyError has returned
Classified == classified.results # <<>>

\* what classifyError returned for the error given
Classification == classified.results[1]

\* some fragment of the message carries a signal of the rule
Carries(type) ==
    \E i \in 1 .. Len(classified.parts) : classified.parts[i].signal = type

\* the waits that the fragments of the message state, in their order
StatedWaits ==
    SelectSeq([i \in 1 .. Len(classified.parts) |-> classified.parts[i].hint],
              LAMBDA h : h # Null)

----------------------------------------------------------------------------
(* C13 *)

\* C13: the first matching rule wins.  A RefineryError is returned as it
\* is; for any other error, whatever the case of its letters, an
\* authentication signal gives AUTH, else a rate-limit signal RATE_LIMIT,
\* else a network signal NETWORK, else a token signal TOKEN_OVERFLOW, else a
\* server signal API_ERROR, else UNKNOWN; the message is kept.  And
\* classifyError(classifyError(e)) = classifyError(e).
C13_FirstMatchingRuleWins ==
    Classified =>
        /\ ~RawGiven => Classification = classified.error
        /\ RawGiven =>
               /\ Classification.instance = "RefineryError"
               /\ Classification.message = classified.error.message
               /\ Classification.type =
                      IF Carries("AUTH") THEN "AUTH"
                      ELSE IF Carries("RATE_LIMIT") THEN "RATE_LIMIT"
                      ELSE IF Carries("NETWORK") THEN "NETWORK"
                      ELSE IF Carries("TOKEN_OVERFLOW") THEN "TOKEN_OVERFLOW"
                      ELSE IF Carries("API_ERROR") THEN "API_ERROR"
                      ELSE "UNKNOWN"
        /\ Len(classified.results) = 2 =>
               classified.results[2] = Classification

\* a message with a network signal before a rate-limit signal has been
\* classified RATE_LIMIT, and classified again to the same
C13_Witness ==
    /\ Len(classified.results) = 2
    /\ RawGiven
    /\ Len(classified.parts) = 2
    /\ classified.parts[1].signal = "NETWORK"
    /\ classified.parts[2].signal = "RATE_LIMIT"
    /\ Classification.type = "RATE_LIMIT"
    /\ classified.results[2] = Classification

----------------------------------------------------------------------------
(* C14 *)

\* C14: for an error not classified before, the classification is one of
\* the six kinds and is retryable exactly when the kind is RATE_LIMIT,
\* NETWORK or API_ERROR.
C14_RetryableExactlyTransientKinds ==
    (Classified /\ RawGiven) =>
        /\ Classification.type \in
               { "AUTH", "RATE_LIMIT", "NETWORK", "TOKEN_OVERFLOW",
                 "API_ERROR", "UNKNOWN" }
        /\ Classification.retryable
               <=> Classification.type \in
                       { "RATE_LIMIT", "NETWORK", "API_ERROR" }

\* a message with a token signal and a server signal has been classified
\* TOKEN_OVERFLOW and not retryable
C14_Witness ==
    /\ Classified
    /\ RawGiven
    /\ Carries("TOKEN_OVERFLOW")
    /\ Carries("API_ERROR")
    /\ Classification.type = "TOKEN_OVERFLOW"
    /\ ~Classification.retryable

----------------------------------------------------------------------------
(* C15 *)

\* C15: for an error not classified before, a RATE_LIMIT classification has
\* retryAfterMs = N * 1000 when the message states a wait of N seconds,
\* N * 60000 when it states N minutes (the first wait stated, if several)
\* and 60000 when it states none; every other kind has no retryAfterMs.
C15_RetryAfterFromMessage ==
    (Classified /\ RawGiven) =>
        IF Classification.type = "RATE_LIMIT"
        THEN Classification.retryAfterMs =
                 IF StatedWaits = <<>> THEN Some(60000)
                 ELSE LET wait == StatedWaits[1][1]
                      IN  IF wait.unit = "minutes"
                          THEN Some(wait.n * 60000)
                          ELSE Some(wait.n * 1000)
        ELSE Classification.retryAfterMs = Null

\* a rate-limit message that states a wait of 2 minutes has got 120000
C15_Witness ==
    /\ Classified
    /\ RawGiven
    /\ Classification.type = "RATE_LIMIT"
    /\ StatedWaits # <<>>
    /\ StatedWaits[1][1].unit = "minutes"
    /\ Classification.retryAfterMs = Some(120000)

----------------------------------------------------------------------------
(* withRetry *)

\* maxRetries runs over 0..MaxAttempts
MaxAttempts == 3

\* initialDelayMs: the value of the example and the default
InitialDelays == { 10, 500 }

\* what fn rejects with
RetryErrors ==
    { Thrown("Error", <<"t", "i", "m", "e", "o", "u", "t">>),
      Thrown("Error", <<"Q", "u", "o", "t", "a">>),
      Thrown("Error", <<"4", "0", "1">>),
      Thrown("string", <<"o", "o", "p", "s">>),
      RefineryError(<<"o", "o", "p", "s">>, "API_ERROR", TRUE, "", Null) }

\* Math.pow(2, n)
RECURSIVE pow2(_)
pow2(n) == IF n <= 0 THEN 1 ELSE 2 * pow2(n - 1)

\* the delay counted from attempt rather than attempt - 1
backoffDelayFromTwo(initialDelayMs, attempt) == initialDelayMs * pow2(attempt)

backoffDelay(initialDelayMs, attempt) == initialDelayMs * pow2(attempt - 1)

\* the test that forgets retryable
givesUpOnLastOnly(lastError, attempt, maxRetries) == attempt = maxRetries

\* the test that forgets the last attempt
givesUpNeverOnLast(lastError, attempt, maxRetries) == ~lastError.retryable

\* !lastError.retryable || attempt === maxRetries
givesUp(lastError, attempt, maxRetries) ==
    ~lastError.retryable \/ attempt = maxRetries

\* what withRetry is seen to do: a call of fn, a call of onRetry, a wait
FnCalled(attempt) ==
    [ev |-> "fn", attempt |-> attempt, error |-> Null, delayMs |-> 0]

OnRetryCalled(attempt, error, delayMs) ==
    [ev |-> "onRetry", attempt |-> attempt, error |-> Some(error),
     delayMs |-> delayMs]

Waited(attempt, delayMs) ==
    [ev |-> "setTimeout", attempt |-> attempt, error |-> Null,
     delayMs |-> delayMs]

\* withRetry before it is called, with its arguments
NewRetry(maxRetries, initialDelayMs, onRetry) ==
    [pc |-> "start", maxRetries |-> maxRetries,
     initialDelayMs |-> initialDelayMs, onRetry |-> onRetry,
     attempt |-> 0, lastError |-> Null, thrown |-> <<>>, trace |-> <<>>,
     outcome |-> "none", failure |-> Null]

\* the head of a loop that tests after its body: the first call of fn is
\* made whatever maxRetries is
LoopHeadTestingAfter(r, attempt) ==
    IF attempt = 1 \/ attempt <= r.maxRetries
    THEN [r EXCEPT !.pc = "fn", !.attempt = attempt,
                   !.trace = Append(@, FnCalled(attempt))]
    ELSE [r EXCEPT !.pc = "done", !.attempt = attempt,
                   !.outcome = "rejected",
                   !.failure =
                       IF r.lastError # Null THEN r.lastError
                       ELSE Some(RefineryError(
                                <<"U", "n", "k", "n", "o", "w", "n", " ",
                                  "e", "r", "r", "o", "r">>,
                                "UNKNOWN", FALSE, "", Null))]

\* the head of the for loop: fn is called if attempt <= maxRetries, else the
\* throw after the loop
LoopHead(r, attempt) ==
    IF attempt <= r.maxRetries
    THEN [r EXCEPT !.pc = "fn", !.attempt = attempt,
                   !.trace = Append(@, FnCalled(attempt))]
    ELSE [r EXCEPT !.pc = "done", !.attempt = attempt,
                   !.outcome = "rejected",
                   !.failure =
                       IF r.lastError # Null THEN r.lastError
                       ELSE Some(RefineryError(
                                <<"U", "n", "k", "n", "o", "w", "n", " ",
                                  "e", "r", "r", "o", "r">>,
                                "UNKNOWN", FALSE, "", Null))]

\* withRetry is called and runs to its first await
CallWithRetry ==
    /\ retry.pc = "start"
    /\ retry' = LoopHead(retry, 1)
    /\ UNCHANGED <<cacheVars, pipeVars, hashed, classified, svcVars>>

\* the promise of fn resolves: withRetry returns its value
FnResolves ==
    /\ retry.pc = "fn"
    /\ retry' = [retry EXCEPT !.pc = "done", !.outcome = "resolved"]
    /\ UNCHANGED <<cacheVars, pipeVars, hashed, classified, svcVars>>

\* the promise of fn rejects: the catch block, up to the throw or the await
\* of the timer
FnRejects(error) ==
    /\ retry.pc = "fn"
    /\ LET lastError == classifyError(error)
           r1 == [retry EXCEPT !.lastError = Some(lastError),
                               !.thrown = Append(@, error)]
           delayMs == backoffDelay(retry.initialDelayMs, retry.attempt)
           r2 == IF retry.onRetry
                 THEN [r1 EXCEPT !.trace = Append(@,
                          OnRetryCalled(retry.attempt, lastError, delayMs))]
                 ELSE r1
       IN  retry' =
               IF givesUp(lastError, retry.attempt, retry.maxRetries)
               THEN [r1 EXCEPT !.pc = "done", !.outcome = "rejected",
                               !.failure = Some(lastError)]
               ELSE [r2 EXCEPT !.pc = "setTimeout",
                               !.trace = Append(@,
                                   Waited(retry.attempt, delayMs))]
    /\ UNCHANGED <<cacheVars, pipeVars, hashed, classified, svcVars>>

\* the timer fires: attempt++ and the head of the loop
TimerFires ==
    /\ retry.pc = "setTimeout"
    /\ retry' = LoopHead(retry, retry.attempt + 1)
    /\ UNCHANGED <<cacheVars, pipeVars, hashed, classified, svcVars>>

InitRetry ==
    /\ CacheIdle
    /\ PipelineIdle
    /\ SvcIdle
    /\ hashed = [inputs |-> <<>>, results |-> <<>>]
    /\ classified = [error |-> "none", parts |-> <<>>, results |-> <<>>]
    /\ \E maxRetries \in -1 .. MaxAttempts, initialDelayMs \in InitialDelays,
          onRetry \in BOOLEAN :
           retry = NewRetry(maxRetries, initialDelayMs, onRetry)

NextRetry ==
    \/ CallWithRetry
    \/ FnResolves
    \/ \E error \in RetryErrors : FnRejects(error)
    \/ TimerFires

SpecRetry == InitRetry /\ [][NextRetry]_vars

----------------------------------------------------------------------------
(* withRetry: what the claims speak of *)

\* the events of one kind, in their order
Events(ev) == SelectSeq(retry.trace, LAMBDA e : e.ev = ev)

\* the classification of the error that the i-th call of fn rejected with
Failure(i) == classifyError(retry.thrown[i])

\* every call of fn so far rejected with a retryable classification
AllRetryable == \A i \in 1 .. Len(retry.thrown) : Failure(i).retryable

\* withRetry has returned the value of fn
Resolved == retry.pc = "done" /\ retry.outcome = "resolved"

\* withRetry has thrown
Rejected == retry.pc = "done" /\ retry.outcome = "rejected"

\* what is seen of a failed attempt i that is retried: the call of fn, the
\* call of onRetry if there is one, the wait
Round(i) ==
    LET delayMs == retry.initialDelayMs * 2 ^ (i - 1)
    IN  <<FnCalled(i)>>
            \o (IF retry.onRetry
                THEN <<OnRetryCalled(i, Failure(i), delayMs)>> ELSE <<>>)
            \o <<Waited(i, delayMs)>>

RECURSIVE Rounds(_)
Rounds(k) == IF k = 0 THEN <<>> ELSE Rounds(k - 1) \o Round(k)

----------------------------------------------------------------------------
(* C16 *)

\* C16: when fn rejects with a retryable classification on its first k
\* calls, k < maxRetries, and resolves on call k + 1, withRetry returns that
\* value; onRetry, if given, is called exactly k times, the i-th time with
\* attempt i, the classification of the i-th error and the delay
\* initialDelayMs * 2^(i-1); and the wait of that delay lies between the
\* i-th call of onRetry and call i + 1 of fn.
C16_BackoffDoublesUntilSuccess ==
    Resolved =>
        LET k == Len(retry.thrown)
        IN  /\ k < retry.maxRetries
            /\ AllRetryable
            /\ retry.trace = Rounds(k) \o <<FnCalled(k + 1)>>
            /\ Len(Events("onRetry")) = IF retry.onRetry THEN k ELSE 0
            /\ Len(Events("setTimeout")) = k
            /\ Len(Events("fn")) = k + 1

\* withRetry(fn, 3, 10, onRetry) has returned after two failures, with the
\* delays 10 and 20
C16_Witness ==
    /\ Resolved
    /\ retry.maxRetries = 3 /\ retry.initialDelayMs = 10 /\ retry.onRetry
    /\ Len(retry.thrown) = 2
    /\ Failure(1).type = "NETWORK"
    /\ Len(Events("onRetry")) = 2
    /\ Events("onRetry")[1].delayMs = 10
    /\ Events("onRetry")[2].delayMs = 20
    /\ Events("setTimeout")[2].delayMs = 20

----------------------------------------------------------------------------
(* C17 *)

\* C17: when fn rejects with a classification that is not retryable,
\* withRetry throws that classification at once, whatever maxRetries is: fn
\* is not called again, onRetry is not called for that failure and there is
\* no wait after it; if the failure is the first, fn was called exactly
\* once and nothing else was done.
C17_NonRetryableFailsAtOnce ==
    \A i \in 1 .. Len(retry.thrown) :
        ~Failure(i).retryable =>
            /\ Rejected
            /\ i = Len(retry.thrown)
            /\ retry.failure = Some(Failure(i))
            /\ retry.trace = Rounds(i - 1) \o <<FnCalled(i)>>
            /\ i = 1 => /\ retry.trace = <<FnCalled(1)>>
                        /\ Events("onRetry") = <<>>
                        /\ Events("setTimeout") = <<>>

\* withRetry(fn, 3, ..., onRetry) has thrown AUTH after one call of fn
C17_Witness ==
    /\ Rejected
    /\ retry.maxRetries = 3 /\ retry.onRetry
    /\ Len(retry.thrown) = 1
    /\ Failure(1).type = "AUTH"
    /\ retry.failure = Some(Failure(1))
    /\ retry.trace = <<FnCalled(1)>>

----------------------------------------------------------------------------
(* C18 *)

\* C18: when every call of fn rejects with a retryable classification and
\* maxRetries >= 1, withRetry calls fn exactly maxRetries times, calls
\* onRetry (if given) exactly maxRetries - 1 times, waits maxRetries - 1
\* times and not after the last failure, and throws the classification of
\* the last error.
C18_ExhaustionAfterMaxAttempts ==
    (Rejected /\ AllRetryable /\ retry.maxRetries >= 1) =>
        LET n == retry.maxRetries
        IN  /\ Len(Events("fn")) = n
            /\ Len(retry.thrown) = n
            /\ Len(Events("onRetry")) = IF retry.onRetry THEN n - 1 ELSE 0
            /\ Len(Events("setTimeout")) = n - 1
            /\ retry.trace = Rounds(n - 1) \o <<FnCalled(n)>>
            /\ retry.failure = Some(Failure(n))

\* withRetry(fn, 3, ..., onRetry) has thrown after three retryable
\* failures, the last of another kind than the first
C18_Witness ==
    /\ Rejected
    /\ AllRetryable
    /\ retry.maxRetries = 3 /\ retry.onRetry
    /\ Len(Events("fn")) = 3
    /\ Len(Events("onRetry")) = 2
    /\ retry.trace[Len(retry.trace)].ev = "fn"
    /\ Failure(1).type = "NETWORK"
    /\ Failure(3).type = "RATE_LIMIT"
    /\ retry.failure = Some(Failure(3))

----------------------------------------------------------------------------
(* C39 *)

\* C39: withRetry never calls fn more than maxRetries times; with
\* maxRetries <= 0 it never calls fn, and once it has run it has failed
\* with a RefineryError of type UNKNOWN and message 'Unknown error' that is
\* not retryable.
C39_AtMostMaxRetriesCalls ==
    /\ Len(Events("fn")) <= IF retry.maxRetries > 0 THEN retry.maxRetries ELSE 0
    /\ (retry.maxRetries <= 0 /\ retry.pc # "start") =>
           /\ Rejected
           /\ retry.trace = <<>>
           /\ retry.failure # Null
           /\ retry.failure[1].instance = "RefineryError"
           /\ retry.failure[1].type = "UNKNOWN"
           /\ retry.failure[1].message =
                  <<"U", "n", "k", "n", "o", "w", "n", " ",
                    "e", "r", "r", "o", "r">>
           /\ ~retry.failure[1].retryable

\* withRetry was called with maxRetries = -1 and has failed without a call
\* of fn
C39_Witness ==
    /\ retry.maxRetries = -1
    /\ Rejected
    /\ Events("fn") = <<>>
    /\ retry.failure # Null
    /\ retry.failure[1].type = "UNKNOWN"

----------------------------------------------------------------------------
(***************************************************************************)
(* Part 4: chatHandler, one request after the other, none cancelled.       *)
(***************************************************************************)

\* getActiveFileContext(): the active file, its content, the cursor
FileContexts == { <<"f">>, <<"g">> }

\* what generateContentStream and the stream throw: errors of the service
\* with a status or a text in the message
ServiceErrors ==
    { Thrown("Error", <<"4", "0", "1">>),
      Thrown("Error", <<"4", "2", "9">>),
      Thrown("Error", <<"b", "a", "d">>) }

\* estimates of prompts far below the warning threshold
SmallEstimates == { 1000 }

\* a request is made when no other is under way
StartRequestAlone(p, command, userInput) ==
    /\ \A q \in Execs : ~Running(q)
    /\ StartRequest(p, command, userInput)

\* one request after the other, none cancelled
NextSequential ==
    \/ \E p \in Execs, command \in Commands, userInput \in UserInputs :
           StartRequestAlone(p, command, userInput)
    \/ \E p \in Execs, apiKey \in ApiKeys : ApiKeyResolved(p, apiKey)
    \/ \E p \in Execs, framework \in Frameworks, model \in Models,
          estimatedTokens \in SmallEstimates, fileContext \in FileContexts :
           ContextGathered(p, framework, model, estimatedTokens, fileContext)
    \/ \E p \in Execs : ServiceResponds(p)
    \/ \E p \in Execs, error \in ServiceErrors : ServiceRejects(p, error)
    \/ \E p \in Execs, text \in ChunkTexts : ChunkArrives(p, text)
    \/ \E p \in Execs, fault \in SinkFaults : StreamCloses(p, fault)
    \/ \E p \in Execs, error \in ServiceErrors : StreamFails(p, error)
    \/ PassTime

SpecSequential == InitPipeline /\ [][NextSequential]_vars

----------------------------------------------------------------------------
(* C25 *)

\* C25: the kind that a failed execution reports to the caller is the kind
\* that classifyError assigns to the error thrown.  (The claim as stated;
\* handleError never calls classifyError and reports UNKNOWN for every
\* error that is no RefineryError.)
C25_ReportedKindIsTheClassifiedKind ==
    \A p \in Execs :
        ServiceFailed(p) =>
            exec[p].metadata = classifyError(exec[p].thrown[1]).type

----------------------------------------------------------------------------
(* C28 *)

\* p is the first request and q the second
Earlier(p, q) == p = "e1" /\ q = "e2"

\* both executions have computed their fingerprint, for the same
\* userInput, model and framework
SameTriple(p, q) ==
    /\ exec[p].cacheKey # NoKey /\ exec[q].cacheKey # NoKey
    /\ exec[p].userInput = exec[q].userInput
    /\ exec[p].model = exec[q].model
    /\ exec[p].framework = exec[q].framework

\* the first request stored its result, and the entry is within its ttl
\* now (the time of the store is the time of the oldest history record)
StoredAndFresh(p) ==
    /\ Did(p, "cache.set")
    /\ history # <<>>
    /\ now - history[Len(history)].timestamp <= cm.ttl

\* C28: two requests with the same userInput, model and framework and
\* different file contexts have the same fingerprint, and when the first
\* stored its result and the entry is within its ttl, the second was
\* served that result from the cache.
C28_FingerprintIgnoresVolatileContext ==
    \A p \in Execs, q \in Execs :
        (/\ Earlier(p, q)
         /\ SameTriple(p, q)
         /\ exec[p].fileContext # exec[q].fileContext)
        => /\ exec[p].cacheKey = exec[q].cacheKey
           /\ StoredAndFresh(p) =>
                  /\ ServedFromCache(q)
                  /\ exec[q].cachedResult = Some(trim(exec[p].refinedPrompt))

\* the first request, with the file f active, streamed and stored x; the
\* second, with the file g active, was served x from the cache
C28_Witness ==
    \E p \in Execs, q \in Execs :
        /\ Earlier(p, q)
        /\ SameTriple(p, q)
        /\ exec[p].fileContext = Some(<<"f">>)
        /\ exec[q].fileContext = Some(<<"g">>)
        /\ exec[p].result = "completed"
        /\ StoredBy(p, <<"x">>)
        /\ ServedFromCache(q)
        /\ exec[q].shown = <<"x">>

----------------------------------------------------------------------------
(* C30 *)

\* historyManager.add or logger.info threw in the execution, after the
\* stream had ended without an error
SinkFailed(p) == exec[p].thrown = Some(SinkError)

\* C30: an execution in which historyManager.add or a logger call threw
\* after a stream without error still returns as completed, and its result
\* is in the cache.  (The claim as stated; both calls are inside the try of
\* chatHandler, and what they throw goes to handleError.)
C30_SinkFailureDoesNotFailThePipeline ==
    \A p \in Execs :
        SinkFailed(p) =>
            /\ exec[p].result = "completed"
            /\ exec[p].metadata = "none"
            /\ Did(p, "cache.set") <=> trim(exec[p].refinedPrompt) # <<>>

----------------------------------------------------------------------------
(***************************************************************************)
(* Part 5: chatHandler under fair scheduling: what is awaited resolves.    *)
(***************************************************************************)

\* the estimates of the two prompts of the fair runs: one far below the
\* limit, one at the limit
FairEstimates == { 1000, DEFAULT_TOKEN_LIMIT }

\* the texts of the fragments of the fair runs
FairChunkTexts == { <<>>, <<"x">> }

NextFair ==
    \/ \E p \in Execs : StartRequest(p, "", <<"a">>)
    \/ \E p \in Execs, apiKey \in ApiKeys : ApiKeyResolved(p, apiKey)
    \/ \E p \in Execs, estimatedTokens \in FairEstimates,
          fileContext \in PipelineFileContexts :
           ContextGathered(p, NoFramework, <<"m">>, estimatedTokens, fileContext)
    \/ \E p \in Execs : ServiceResponds(p)
    \/ \E p \in Execs, error \in PipelineErrors : ServiceRejects(p, error)
    \/ \E p \in Execs, text \in FairChunkTexts : ChunkArrives(p, text)
    \/ \E p \in Execs : StreamCloses(p, NoFault)
    \/ \E p \in Execs, error \in PipelineErrors : StreamFails(p, error)
    \/ \E p \in Execs : CancelRequested(p)
    \/ PassTime

\* getProjectContext and getActiveFileContext resolve,
\* model.generateContentStream resolves or rejects, and the stream of the
\* service closes or throws
Fairness ==
    \A p \in Execs :
        /\ WF_vars(\E estimatedTokens \in FairEstimates,
                      fileContext \in PipelineFileContexts :
                       ContextGathered(p, NoFramework, <<"m">>,
                                       estimatedTokens, fileContext))
        /\ WF_vars(\/ ServiceResponds(p)
                   \/ \E error \in PipelineErrors : ServiceRejects(p, error))
        /\ WF_vars(\/ StreamCloses(p, NoFault)
                   \/ \E error \in PipelineErrors : StreamFails(p, error))

SpecFair == InitPipeline /\ [][NextFair]_vars /\ Fairness

----------------------------------------------------------------------------
(* C31 *)

\* the execution has passed the credential check
PassedCredentialCheck(p) == exec[p].pc = "getContext"

\* the terminal outcome of an execution that has returned after the
\* credential check
Outcome(p) ==
    CASE exec[p].result = "cached" -> "DONE"
      [] exec[p].result = "completed" -> "COMPLETED"
      [] exec[p].result = "cancelled" -> "CANCELLED"
      [] exec[p].result \in { "error", "tooLong" } -> "FAILED"
      [] OTHER -> "NONE"

\* the steps of the state machine of a request: from the credential check
\* to the awaited context or out; from the awaited context to a return at
\* the cancellation check, at the token gate or on a cache hit, or on a
\* miss to the call of the service; from the call to the stream or to a
\* failure; from the stream to a return
PipelineStep(from, to) ==
    \/ from = "ensureApiKey" /\ to \in { "getContext", "returned" }
    \/ from = "getContext" /\ to \in { "returned", "generateContentStream" }
    \/ from = "generateContentStream" /\ to \in { "stream", "returned" }
    \/ from = "stream" /\ to = "returned"

\* C31: an execution that has passed the credential check moves along
\* context -> token gate -> cache hit, or cache miss -> stream; once it has
\* returned it has one outcome among DONE, COMPLETED, CANCELLED and FAILED
\* and keeps it; and, what it awaits resolving, it returns eventually.
C31_OneTerminalOutcomeEventually ==
    /\ [][\A p \in Execs :
             /\ (exec[p].pc # "idle" /\ exec'[p].pc # exec[p].pc)
                    => PipelineStep(exec[p].pc, exec'[p].pc)
             /\ (exec[p].pc \notin { "idle", "ensureApiKey" }
                  /\ exec'[p].pc # exec[p].pc)
                    => ((exec'[p].pc = "returned") <=> (Outcome(p)' # "NONE"))
             /\ (exec[p].pc = "returned")
                    => (exec'[p].pc = "returned"
                        /\ exec'[p].result = exec[p].result)]_vars
    /\ \A p \in Execs :
           PassedCredentialCheck(p) ~> (exec[p].pc = "returned"
                                        /\ Outcome(p) # "NONE")

\* one execution has completed after a fragment, and the other, having
\* passed the credential check, was served its result from the cache
C31_Witness ==
    \E p \in Execs, q \in Execs :
        /\ Outcome(p) = "DONE"
        /\ Outcome(q) = "COMPLETED"
        /\ exec[p].cacheKey = exec[q].cacheKey
        /\ exec[q].forwarded = << <<"x">> >>

----------------------------------------------------------------------------
(***************************************************************************)
(* Part 6: one request and a stream of up to MaxFragments fragments.       *)
(***************************************************************************)

\* the service produces at most MaxFragments fragments in the stream
MaxFragments == 5

\* chunk.text() of the fragments: empty, one character, two characters
ProgressChunkTexts == { <<>>, <<"x">>, <<"y", "y">> }

\* the stream yields a fragment
FragmentArrives(p, text) == ChunkArrivesUpTo(p, text, MaxFragments)

NextProgress ==
    \/ StartRequest("e1", "", <<"a">>)
    \/ ApiKeyResolved("e1", <<"k">>)
    \/ \E fileContext \in PipelineFileContexts :
           ContextGathered("e1", NoFramework, <<"m">>, 1000, fileContext)
    \/ ServiceResponds("e1")
    \/ \E text \in ProgressChunkTexts : FragmentArrives("e1", text)
    \/ StreamCloses("e1", NoFault)
    \/ CancelRequested("e1")

SpecProgress == InitPipeline /\ [][NextProgress]_vars

----------------------------------------------------------------------------
(* C34 *)

\* the characters of the fragments together
RECURSIVE TotalLength(_)
TotalLength(fragments) ==
    IF fragments = <<>> THEN 0
    ELSE Len(Head(fragments)) + TotalLength(Tail(fragments))

\* every call of onProgress so far has reported the characters of the
\* fragments with text produced up to it
ReportsCharsSoFar(p) ==
    \A i \in 1 .. Len(exec[p].reported) :
        /\ i <= Len(Yielded(exec[p].produced))
        /\ exec[p].reported[i]
               = TotalLength(SubSeq(Yielded(exec[p].produced), 1, i))

\* C34 as stated: onProgress is called at a throttled cadence, at every
\* fifth fragment and not at every fragment, and each call reports the
\* characters of all fragments produced so far.  (streamFromGemini calls
\* onProgress for every fragment with text; the callback of chatHandler
\* throttles the progress it shows.)
C34_OnProgressIsThrottled ==
    \A p \in Execs :
        /\ Len(exec[p].reported) = Len(Yielded(exec[p].produced)) \div 5
        /\ ReportsCharsSoFar(p)

\* C34: onProgress is called for every fragment with text, each call
\* reporting the characters of all fragments produced so far, and the
\* callback of chatHandler shows a progress update at every fifth call and
\* not at every fragment.
C34_ProgressShownIsThrottled ==
    \A p \in Execs :
        /\ Len(exec[p].reported) = Len(Yielded(exec[p].produced))
        /\ ReportsCharsSoFar(p)
        /\ exec[p].chunkCount = Len(exec[p].reported)
        /\ Times(p, "progress") = Len(exec[p].reported) \div 5

\* five fragments with text of different lengths have been produced, and
\* the fifth call of onProgress has shown the one progress update
C34_Witness ==
    \E p \in Execs :
        /\ Len(exec[p].reported) = 5
        /\ exec[p].reported[5] = 7
        /\ Times(p, "progress") = 1
        /\ exec[p].log[Len(exec[p].log) - 1] = "progress"

----------------------------------------------------------------------------
(***************************************************************************)
(* Part 7: the Gemini client (geminiClient.ts): the key in SecretStorage,  *)
(* geminiInstance, and the clients that streamFromGemini is given.         *)
(***************************************************************************)

\* at most MaxRequests calls of streamFromGemini
MaxRequests == 4

\* the keys the user enters
EnteredKeys == { <<"k", "1">>, <<"k", "2">>, <<"k", "3">> }

\* createGeminiClient: the GoogleGenerativeAI instance is built from the
\* key given if there is none, and the model comes from the instance
createGeminiClient(c, apiKey) ==
    IF c.geminiInstance = Null
    THEN [c EXCEPT !.geminiInstance = Some(apiKey)]
    ELSE c

\* resetGeminiClient
resetGeminiClient(c) == [c EXCEPT !.geminiInstance = Null]

\* promptForApiKey: the user enters a key and it is stored in SecretStorage
PromptForApiKey(apiKey) ==
    /\ client' = [client EXCEPT !.secret = Some(apiKey)]
    /\ UNCHANGED <<cacheVars, pipeVars, hashed, classified, retry, tokens,
                   discarded>>

\* a request: ensureApiKey reads the stored key, and streamFromGemini
\* calls createGeminiClient with it and uses the model returned
StreamFromGemini ==
    /\ client.secret # Null
    /\ Len(client.made) < MaxRequests
    /\ LET apiKey == client.secret[1]
           c == createGeminiClient(client, apiKey)
       IN  client' = [c EXCEPT !.made =
               Append(@, [apiKey |-> apiKey, builtFrom |-> c.geminiInstance[1]])]
    /\ UNCHANGED <<cacheVars, pipeVars, hashed, classified, retry, tokens,
                   discarded>>

InitClient ==
    /\ CacheIdle
    /\ PipelineIdle
    /\ hashed = [inputs |-> <<>>, results |-> <<>>]
    /\ classified = [error |-> "none", parts |-> <<>>, results |-> <<>>]
    /\ retry = [pc |-> "idle"]
    /\ SvcIdle

NextClient ==
    \/ \E apiKey \in EnteredKeys : PromptForApiKey(apiKey)
    \/ StreamFromGemini

SpecClient == InitClient /\ [][NextClient]_vars

----------------------------------------------------------------------------
(* C35 *)

\* C35: every client that streamFromGemini was given is built from the key
\* that was stored at the time of the call, so that after promptForApiKey
\* has stored a new key the next call uses a client of the new key.  (The
\* claim as stated; createGeminiClient keeps the instance built from the
\* first key, and nothing calls resetGeminiClient.)
C35_ClientFollowsTheStoredKey ==
    \A i \in 1 .. Len(client.made) :
        client.made[i].builtFrom = client.made[i].apiKey

----------------------------------------------------------------------------
(***************************************************************************)
(* Part 8: estimateTokens and validateTokenCount (tokenCounter.ts).        *)
(***************************************************************************)

\* the texts given to estimateTokens have at most MaxTextLen characters
MaxTextLen == 4

\* a letter, two kinds of whitespace, two punctuation characters
TokenChars == { "a", " ", "\n", ".", "(" }

TokenTexts == UNION { [1 .. n -> TokenChars] : n \in 0 .. MaxTextLen }

\* [.,!?;:'"()\[\]{}]
IsPunctuation(c) ==
    c \in { ".", ",", "!", "?", ";", ":", "'", "\"", "(", ")", "[", "]", "{", "}" }

\* String.prototype.trim with the whitespace of \s
RECURSIVE trimStart(_)
trimStart(s) ==
    IF s # <<>> /\ IsSpace(Head(s)) THEN trimStart(Tail(s)) ELSE s

RECURSIVE trimEnd(_)
trimEnd(s) ==
    IF s # <<>> /\ IsSpace(s[Len(s)])
    THEN trimEnd(SubSeq(s, 1, Len(s) - 1)) ELSE s

\* split(/\s+/): the pieces between the runs of whitespace, the piece
\* under way being word
RECURSIVE split(_, _)
split(s, word) ==
    IF s = <<>> THEN <<word>>
    ELSE IF IsSpace(Head(s))
         THEN <<word>> \o split(trimStart(s), <<>>)
         ELSE split(Tail(s), Append(word, Head(s)))

\* Math.ceil(words * 1.3 + punctuationCount * 0.5), in tenths
ceilTokens(words, punctuationCount) ==
    (13 * words + 5 * punctuationCount + 9) \div 10

\* estimateTokens with Math.round
estimateTokensRounded(text) ==
    IF Len(trimEnd(trimStart(text))) = 0 THEN 0
    ELSE LET words == Len(split(trimEnd(trimStart(text)), <<>>))
             punctuationCount == Len(SelectSeq(text, IsPunctuation))
         IN  (13 * words + 5 * punctuationCount + 4) \div 10

estimateTokens(text) ==
    IF Len(trimEnd(trimStart(text))) = 0 THEN 0
    ELSE LET words == Len(split(trimEnd(trimStart(text)), <<>>))
             punctuationCount == Len(SelectSeq(text, IsPunctuation))
         IN  ceilTokens(words, punctuationCount)

\* long prompts, given by what estimateTokens counts in them: the words
\* and the punctuation characters
LongPrompts ==
    { [words |-> w, punctuationCount |-> q] :
          w \in { 1000, 61537, 61538, 76922, 76923, 90000 }, q \in { 0, 1 } }

\* warningThreshold, in percent: none, the default, the ceiling, beyond it
Thresholds == { 0, WarningThresholdPercent, 100, 150 }

\* estimateTokens is called on the text
EstimateTokens ==
    /\ tokens.pc = "given"
    /\ tokens.estimate = Null
    /\ tokens' = [tokens EXCEPT !.estimate = Some(estimateTokens(tokens.text))]
    /\ UNCHANGED <<cacheVars, pipeVars, hashed, classified, retry, client,
                   discarded>>

\* validateTokenCount is called on the long prompt with the threshold
ValidateTokenCount ==
    /\ tokens.pc = "given"
    /\ tokens.validation = Null
    /\ tokens' = [tokens EXCEPT !.validation =
           Some(validateTokenCount(
                    ceilTokens(tokens.prompt.words,
                               tokens.prompt.punctuationCount),
                    tokens.warningThreshold))]
    /\ UNCHANGED <<cacheVars, pipeVars, hashed, classified, retry, client,
                   discarded>>

InitTokens ==
    /\ CacheIdle
    /\ PipelineIdle
    /\ hashed = [inputs |-> <<>>, results |-> <<>>]
    /\ classified = [error |-> "none", parts |-> <<>>, results |-> <<>>]
    /\ retry = [pc |-> "idle"]
    /\ client = [secret |-> <<>>, geminiInstance |-> <<>>, made |-> <<>>]
    /\ discarded = <<>>
    /\ \E text \in TokenTexts, prompt \in LongPrompts,
          warningThreshold \in Thresholds :
           tokens = [pc |-> "given", text |-> text, prompt |-> prompt,
                     warningThreshold |-> warningThreshold,
                     estimate |-> Null, validation |-> Null]

NextTokens ==
    \/ EstimateTokens
    \/ ValidateTokenCount

SpecTokens == InitTokens /\ [][NextTokens]_vars

----------------------------------------------------------------------------
(* C36 *)

\* the whitespace-delimited words of the text: the places where a word
\* begins
Words(text) ==
    Cardinality({ i \in 1 .. Len(text) :
                      /\ ~IsSpace(text[i])
                      /\ i = 1 \/ IsSpace(text[i - 1]) })

\* the punctuation characters of the text
Punctuation(text) ==
    Cardinality({ i \in 1 .. Len(text) : IsPunctuation(text[i]) })

\* the least integer n with n >= tenths / 10
CeilingOfTenths(tenths) ==
    CHOOSE n \in 0 .. tenths : 10 * n >= tenths /\ 10 * (n - 1) < tenths

\* C36: estimateTokens(text) is 0 for a text that is empty or whitespace
\* only, and else the ceiling of 1.3 times the number of its
\* whitespace-delimited words plus 0.5 times the number of its punctuation
\* characters.
C36_EstimateIsCeilingOfWordsAndPunctuation ==
    (tokens.pc = "given" /\ tokens.estimate # Null) =>
        tokens.estimate[1] =
            IF Words(tokens.text) = 0 THEN 0
            ELSE CeilingOfTenths(13 * Words(tokens.text)
                                     + 5 * Punctuation(tokens.text))

\* the estimate of "a .(" between whitespace is taken: two words and two
\* punctuation characters, 3.6 rounded up
C36_Witness ==
    /\ tokens.pc = "given"
    /\ tokens.text = <<"a", "\n", ".", "(">>
    /\ tokens.estimate = Some(4)

----------------------------------------------------------------------------
(* C37 *)

\* C37: in the result of validateTokenCount, isValid is false exactly when
\* estimatedTokens >= maxTokens and exactly when error is set; warning is
\* set exactly when usagePercent is at or above the threshold and below
\* 100; warning and error are never both set.
C37_ValidationIsConsistent ==
    (tokens.pc = "given" /\ tokens.validation # Null) =>
        LET v == tokens.validation[1]
        IN  /\ v.isValid <=> ~(v.estimatedTokens >= v.maxTokens)
            /\ v.error <=> ~v.isValid
            /\ v.warning <=>
                   /\ v.estimatedTokens * 100
                          >= tokens.warningThreshold * v.maxTokens
                   /\ v.estimatedTokens < v.maxTokens
            /\ ~(v.warning /\ v.error)

\* a prompt of 76923 words, estimated at the ceiling, was validated with
\* the default threshold: not valid, error and no warning
C37_Witness ==
    /\ tokens.pc = "given"
    /\ tokens.validation # Null
    /\ tokens.prompt = [words |-> 76923, punctuationCount |-> 0]
    /\ tokens.warningThreshold = WarningThresholdPercent
    /\ tokens.validation[1].estimatedTokens = DEFAULT_TOKEN_LIMIT
    /\ ~tokens.validation[1].isValid
    /\ tokens.validation[1].error
    /\ ~tokens.validation[1].warning

----------------------------------------------------------------------------
(***************************************************************************)
(* Part 9: resetCacheManager and the requests under way (cacheManager.ts,  *)
(* dashboard.ts, chatParticipant.ts).                                      *)
(***************************************************************************)

\* the dashboard clears the cache at most MaxResets times
MaxResets == 1

\* handleMessage of the dashboard for 'clearCache': resetCacheManager()
\* clears the object cacheInstance points to and sets cacheInstance to
\* null; the getCacheManager() of this.update() builds the next object from
\* the settings as they are then
HandleMessageClearCache(cacheSize, cacheTTL) ==
    /\ ~hung
    /\ Len(discarded) < MaxResets
    /\ discarded' = Append(discarded, clear(cm))
    /\ cm' = NewCacheManager(cacheSize, cacheTTL)
    /\ gets' = 0
    /\ ret' = Call("resetCacheManager", NoKey, Null)
    /\ UNCHANGED <<now, hung, pipeVars, hashed, classified, retry, client,
                   tokens>>

\* one request after the other, none cancelled, at one instant, and the
\* dashboard
NextReset ==
    \/ \E p \in Execs, command \in Commands, userInput \in UserInputs :
           StartRequestAlone(p, command, userInput)
    \/ \E p \in Execs, apiKey \in ApiKeys : ApiKeyResolved(p, apiKey)
    \/ \E p \in Execs, framework \in Frameworks, model \in Models,
          estimatedTokens \in SmallEstimates,
          fileContext \in PipelineFileContexts :
           ContextGathered(p, framework, model, estimatedTokens, fileContext)
    \/ \E p \in Execs : ServiceResponds(p)
    \/ \E p \in Execs, text \in ChunkTexts : ChunkArrives(p, text)
    \/ \E p \in Execs : StreamCloses(p, NoFault)
    \/ \E cacheSize \in PipelineSizes, cacheTTL \in ConfigTTLs :
           HandleMessageClearCache(cacheSize, cacheTTL)

SpecReset == InitPipeline /\ [][NextReset]_vars

----------------------------------------------------------------------------
(* C40 *)

\* the step is a reset of the cache
IsReset == Len(discarded') = Len(discarded) + 1

\* the step completes the execution, which stores a non-blank text and
\* holds an object discarded since it got it
CompletesStale(p) ==
    /\ exec[p].pc = "stream"
    /\ exec'[p].result = "completed"
    /\ trim(exec'[p].refinedPrompt) # <<>>
    /\ exec[p].cacheManager # cacheInstance

\* the execution has completed and stored its result into an object that
\* had been discarded: the object was cleared when it was discarded, and
\* holds the fingerprint of the execution
StoredIntoDiscarded(p) ==
    /\ exec[p].result = "completed"
    /\ exec[p].cacheManager # cacheInstance
    /\ MapHas(discarded[exec[p].cacheManager].cache, exec[p].cacheKey)

\* the step is the cache lookup of the execution
LooksUp(q) ==
    /\ exec[q].pc = "getContext"
    /\ exec'[q].cacheManager # 0

\* C40: a reset of the cache leaves a fresh, empty cache with zero
\* counters; an execution that obtained the cache before a reset and
\* completes after it stores its result into the discarded object and
\* leaves the current cache as it is, without an entry for its
\* fingerprint; and a repeat of the same request, looking up the current
\* cache, misses.
C40_ResetRacingARefinement ==
    [][ /\ IsReset =>
               /\ getStats(cm').size = 0
               /\ getStats(cm').hits = 0
               /\ getStats(cm').misses = 0
               /\ cm'.cache = <<>>
        /\ \A p \in Execs :
               CompletesStale(p) =>
                   LET d == discarded'[exec[p].cacheManager].cache
                       key == exec[p].cacheKey
                   IN  /\ MapHas(d, key)
                       /\ MapEntry(d, key).value = trim(exec'[p].refinedPrompt)
                       /\ cm' = cm
                       /\ ~MapHas(cm'.cache, key)
        /\ \A p, q \in Execs :
               ( /\ StoredIntoDiscarded(p)
                 /\ LooksUp(q)
                 /\ exec'[q].cacheKey = exec[p].cacheKey )
                   => /\ exec'[q].result # "cached"
                      /\ exec'[q].pc = "generateContentStream"
                      /\ cm'.misses = cm.misses + 1
      ]_vars

\* e1 got the first object, the cache was reset while it streamed, and it
\* completed: its result is in the discarded object; e2 repeated the
\* request at the same instant, missed and called the service
C40_Witness ==
    /\ exec["e1"].result = "completed"
    /\ exec["e1"].cacheManager = 1
    /\ cacheInstance = 2
    /\ MapHas(discarded[1].cache, exec["e1"].cacheKey)
    /\ exec["e2"].cacheKey = exec["e1"].cacheKey
    /\ exec["e2"].cacheManager = 2
    /\ exec["e2"].pc = "generateContentStream"
    /\ Len(calls) = 2
    /\ now = 0

====
